---- MODULE Spec2Model ----
(***************************************************************************)
(* A model of openclaw-mcp-router: the parallel indexer (runIndexer /      *)
(* indexServer), the chunker, the vector store's write protocol, the tool  *)
(* registry and the mcp_call operator.                                     *)
(*                                                                         *)
(* Text is a sequence of one-character strings, so that lengths, slices    *)
(* and concatenations are those of the program's strings.                  *)
(***************************************************************************)
EXTENDS Integers, Sequences, FiniteSets, TLC

\* ------------------------------------------------------------------------
\* Bounds of the model
\* ------------------------------------------------------------------------

\* Number of indexer runs (the first index and the re-indexes after it).
MaxRuns == 2

\* Largest indexer.maxRetries the configurations of the model use.
MaxRetries == 1

\* Invocations of mcp_call in a behaviour; they may overlap.
MaxCalls == 2

\* Longest list of rows the store returns to a search.
MaxRows == 3

\* Operations called on one vector-store instance; they may overlap.
MaxOps == 3

\* Invocations of the service's start and of the reindex command.
MaxJobs == 2

\* Longest text given to chunkText.
MaxText == 9

\* Chunks after which a hard-split loop is followed no further.
MaxChunks == 12

\* ------------------------------------------------------------------------
\* Strings
\* ------------------------------------------------------------------------

Min(a, b) == IF a < b THEN a ELSE b

Max(a, b) == IF a > b THEN a ELSE b

\* String.prototype.slice(a, b): negative indices count from the end.
JsSlice(s, a, b) ==
  LET n == Len(s)
      norm(x) == IF x < 0 THEN Max(n + x, 0) ELSE Min(x, n)
      from == norm(a)
      to == norm(b)
  IN IF from >= to THEN <<>> ELSE SubSeq(s, from + 1, to)

\* First position (1-based) at which sep occurs in text, 0 when it does not.
IndexOf(text, sep) ==
  LET hits == {i \in 1..(Len(text) - Len(sep) + 1) :
                 SubSeq(text, i, i + Len(sep) - 1) = sep}
  IN IF hits = {} THEN 0 ELSE CHOOSE i \in hits : \A j \in hits : i <= j

\* String.prototype.includes
Includes(text, sep) == IndexOf(text, sep) # 0

\* String.prototype.split(sep) for a non-empty separator.
RECURSIVE JsSplit(_, _)
JsSplit(text, sep) ==
  LET i == IndexOf(text, sep)
  IN IF i = 0
       THEN <<text>>
       ELSE <<SubSeq(text, 1, i - 1)>>
            \o JsSplit(SubSeq(text, i + Len(sep), Len(text)), sep)

\* ------------------------------------------------------------------------
\* Chunker (chunker.ts)
\* ------------------------------------------------------------------------

NL == "\n"

separators == << <<NL, NL>>, <<NL>>, <<".", " ">> >>

\* splitSegments: split on the first separator of the hierarchy that occurs,
\* the separator re-attached to every part but the last.
splitSegments(text) ==
  LET found == {k \in 1..Len(separators) : Includes(text, separators[k])}
  IN IF found = {}
       THEN <<text>>
       ELSE LET k == CHOOSE x \in found : \A y \in found : x <= y
                sep == separators[k]
                parts == JsSplit(text, sep)
            IN [i \in 1..Len(parts) |->
                  IF i < Len(parts) THEN parts[i] \o sep ELSE parts[i]]

continuationPrefix(toolNamePrefix) == toolNamePrefix \o <<":", " ", ".", ".", ".", " ">>

\* One iteration of the while loop of mergeSegments that hard-splits an
\* oversized segment: <<chunks, remaining>> after it.
hardSplitOnce(remaining, chunks, prefix, config) ==
  LET maxChunkChars == config.maxChunkChars
      overlapChars == config.overlapChars
      overlap == IF overlapChars > 0
                   THEN JsSlice(remaining, maxChunkChars - overlapChars, maxChunkChars)
                   ELSE <<>>
  IN << Append(chunks, JsSlice(remaining, 0, maxChunkChars)),
        prefix \o overlap \o JsSlice(remaining, maxChunkChars, Len(remaining)) >>

\* The while loop of mergeSegments that hard-splits an oversized segment:
\* returns <<chunks, remaining>>.
RECURSIVE hardSplit(_, _, _, _)
hardSplit(remaining, chunks, prefix, config) ==
  IF Len(remaining) > config.maxChunkChars
    THEN LET hs == hardSplitOnce(remaining, chunks, prefix, config)
         IN hardSplit(hs[2], hs[1], prefix, config)
    ELSE <<chunks, remaining>>

\* The first if of the for loop of mergeSegments, the new chunk started
\* without the continuation prefix.
finalizeWithoutPrefix(segment, chunks, current, prefix, config) ==
  IF Len(current) > 0 /\ Len(current) + Len(segment) > config.maxChunkChars
    THEN << Append(chunks, current),
            IF config.overlapChars > 0
              THEN JsSlice(current, -config.overlapChars, Len(current))
              ELSE <<>> >>
    ELSE <<chunks, current>>

\* The first if of the for loop of mergeSegments: <<chunks, current>> after
\* it, the current chunk finalized when the segment does not fit.
finalizeCurrent(segment, chunks, current, prefix, config) ==
  IF Len(current) > 0 /\ Len(current) + Len(segment) > config.maxChunkChars
    THEN << Append(chunks, current),
            prefix \o (IF config.overlapChars > 0
                         THEN JsSlice(current, -config.overlapChars, Len(current))
                         ELSE <<>>) >>
    ELSE <<chunks, current>>

\* The for loop of mergeSegments from segment k on: returns the chunk texts.
RECURSIVE mergeFrom(_, _, _, _, _, _)
mergeFrom(segments, k, chunks, current, prefix, config) ==
  IF k > Len(segments)
    THEN IF Len(current) > 0 THEN Append(chunks, current) ELSE chunks
    ELSE
      LET segment == segments[k]
          fc == finalizeCurrent(segment, chunks, current, prefix, config)
      IN IF Len(segment) > config.maxChunkChars
           THEN LET hs == hardSplit(fc[2] \o segment, fc[1], prefix, config)
                IN mergeFrom(segments, k + 1, hs[1], hs[2], prefix, config)
           ELSE mergeFrom(segments, k + 1, fc[1], fc[2] \o segment, prefix, config)

mergeSegments(segments, toolNamePrefix, config) ==
  mergeFrom(segments, 1, <<>>, <<>>, continuationPrefix(toolNamePrefix), config)

\* chunks.map((text, index) => ({ index, total, text }))
indexChunks(chunks) ==
  [i \in 1..Len(chunks) |-> [index |-> i - 1, total |-> Len(chunks), text |-> chunks[i]]]

\* chunkText: the list of chunks {index, total, text}.
chunkText(text, toolNamePrefix, config) ==
  IF config.maxChunkChars = 0 \/ Len(text) <= config.maxChunkChars
    THEN << [index |-> 0, total |-> 1, text |-> text] >>
    ELSE indexChunks(mergeSegments(splitSegments(text), toolNamePrefix, config))

\* ------------------------------------------------------------------------
\* State
\* ------------------------------------------------------------------------

VARIABLES
  servers,        \* cfg.servers: the configured server descriptors
  maxRetries,     \* cfg.indexer.maxRetries
  runLimit,       \* number of runIndexer calls the behaviour makes
  runStatus,      \* runIndexer: "idle", "running", "resolved" or "rejected"
  runs,           \* number of runIndexer calls so far
  signalAborted,  \* signal.aborted of the current run
  preAborted,     \* the signal was aborted when runIndexer was called
  task,           \* the indexServer task of each server
  store,          \* the rows of the mcp_tools table
  toolOwnerMap,   \* McpRegistry.toolOwnerMap
  registryWarns,  \* collision warnings of the registry in the current run
  runWarns,       \* warn-level log entries of runIndexer itself in the current run
  result,         \* the IndexerResult of the last resolved run
  everyRunSucceeded  \* every run so far resolved with every tool of every server indexed

indexerVars == <<servers, maxRetries, runLimit, runStatus, runs, signalAborted, preAborted, task,
                 store, toolOwnerMap, registryWarns, runWarns, result, everyRunSucceeded>>

\* mcp_call: the configured call backend (callExecution.mode), the
\* invocations of execute, and every McpClient constructed by them, in
\* order of construction.
VARIABLES callMode, call, clients

callVars == <<callMode, call, clients>>

\* mcp_search: the search configuration (cfg.search) and the invocation of
\* execute.
VARIABLES searchCfg, search

searchVars == <<searchCfg, search>>

\* One McpToolVectorStore instance and its database (the fields and the
\* progress of doInitialize, the table on disk), and the operations called
\* on the instance.
VARIABLES vectorStore, storeOps

storeInitVars == <<vectorStore, storeOps>>

\* The plugin's service and its reindex command (index.ts): the service's
\* indexerAbort, every AbortController created, the start and reindex
\* invocations, and the status file.
VARIABLES indexerAbort, tokens, jobs, statusFile

lifecycleVars == <<indexerAbort, tokens, jobs, statusFile>>

\* A call of chunkText: its arguments, the locals of mergeSegments and the
\* list returned.
VARIABLES chunker

\* A call of parseConfig (config.ts): the raw plugin configuration and the
\* servers file it reads, and what the call returns or throws.
VARIABLES parse

\* One indexServer task seen from its server and its timers (indexer.ts): the
\* descriptor and the indexer settings it runs with, the timeouts it passes
\* to connect, the delays it sleeps and the clients it opens.
VARIABLES attemptLoop

\* The variables of the components other than the indexer and mcp_call.
otherVars == <<searchVars, storeInitVars, lifecycleVars, chunker, parse, attemptLoop>>

\* What a step of one component leaves alone.
searchFrame == <<indexerVars, callVars, storeInitVars, lifecycleVars, chunker, parse, attemptLoop>>

storeInitFrame == <<indexerVars, callVars, searchVars, lifecycleVars, chunker, parse, attemptLoop>>

lifecycleFrame == <<indexerVars, callVars, searchVars, storeInitVars, chunker, parse, attemptLoop>>

chunkerFrame == <<indexerVars, callVars, searchVars, storeInitVars, lifecycleVars, parse, attemptLoop>>

parseFrame == <<indexerVars, callVars, searchVars, storeInitVars, lifecycleVars, chunker, attemptLoop>>

attemptLoopFrame == <<indexerVars, callVars, searchVars, storeInitVars, lifecycleVars, chunker, parse>>

vars == <<indexerVars, callVars, otherVars>>

\* ------------------------------------------------------------------------
\* Configuration of the indexer runs (McpRouterConfig)
\* ------------------------------------------------------------------------

\* The server descriptors of the configurations of the model.
ServerA == [name |-> <<"a">>]

ServerB == [name |-> <<"b">>]

\* Two servers whose names, joined to the names of their tools with "::",
\* read the same: s with the tool t::u, and s::t with the tool u.
ServerS == [name |-> <<"s">>]

ServerST == [name |-> <<"s", ":", ":", "t">>]

\* A server that drops a tool: it lists r and w, or r alone.
ServerV == [name |-> <<"v">>]

\* The positions of cfg.servers: one indexServer task each.
Servers == 1..Len(servers)

\* cfg.indexer, but for maxRetries, which Init chooses.
cfgIndexer == [maxChunkChars |-> 10, overlapChars |-> 1,
               initialRetryDelay |-> 2, maxRetryDelay |-> 3]

\* ------------------------------------------------------------------------
\* What the capability servers may answer to listTools
\* ------------------------------------------------------------------------

Xs(n) == [i \in 1..n |-> "x"]

\* inputSchema values: flat objects, a sequence of <<key, value>> pairs.
SchemaObject == << << <<"t">>, <<"o">> >> >>

SchemaEmpty == <<>>

\* The (description, inputSchema) a tool may have at the time of a run: a
\* short description, a long one (several chunks), a short one with another
\* schema.
ToolVersions ==
  { [description |-> <<"d">>, inputSchema |-> SchemaObject],
    [description |-> Xs(9), inputSchema |-> SchemaObject],
    [description |-> <<"e">>, inputSchema |-> SchemaEmpty] }

\* The tool names a server exposes, in listTools order: both servers expose
\* a tool named r.
serverToolNames(server) ==
  IF server = ServerA THEN << <<"r">>, <<"w">> >>
  ELSE IF server = ServerS THEN << <<"t", ":", ":", "u">>, <<"w">> >>
  ELSE IF server = ServerST THEN << <<"u">> >>
  ELSE << <<"r">> >>

ToolNames == {<<"r">>, <<"w">>}

\* McpClient.listTools: the lists a server may return.
toolListsOf(names) ==
  { [k \in 1..Len(names) |->
       [name |-> names[k], description |-> vs[k].description,
        inputSchema |-> vs[k].inputSchema]] :
    vs \in {f \in [1..Len(names) -> ToolVersions] :
              \A k \in 1..Len(names) :
                Len(names[k]) > 1 => Len(f[k].description) = 1} }

ToolLists(server) ==
  IF server = ServerV
    THEN toolListsOf(<< <<"r">>, <<"w">> >>) \cup toolListsOf(<< <<"r">> >>)
    ELSE toolListsOf(serverToolNames(server))

\* ------------------------------------------------------------------------
\* Entries of the vector store (vector-store.ts)
\* ------------------------------------------------------------------------

Quoted(str) == <<"\"">> \o str \o <<"\"">>

\* JSON.stringify of an inputSchema.
RECURSIVE stringifyPairs(_, _)
stringifyPairs(pairs, k) ==
  IF k > Len(pairs) THEN <<>>
  ELSE (IF k > 1 THEN <<",">> ELSE <<>>)
       \o Quoted(pairs[k][1]) \o <<":">> \o Quoted(pairs[k][2])
       \o stringifyPairs(pairs, k + 1)

JsonStringify(schema) == <<"{">> \o stringifyPairs(schema, 1) \o <<"}">>

\* The decimal digits of a chunk index.
Digit(i) == CASE i = 0 -> "0" [] i = 1 -> "1" [] i = 2 -> "2" [] i = 3 -> "3"
              [] i = 4 -> "4" [] i = 5 -> "5" [] i = 6 -> "6" [] i = 7 -> "7"
              [] i = 8 -> "8" [] OTHER -> "9"

RECURSIVE Decimal(_)
Decimal(i) == IF i < 10 THEN <<Digit(i)>> ELSE Decimal(i \div 10) \o <<Digit(i % 10)>>

\* `${serverCfg.name}::${tool.name}`
singleToolId(serverName, toolName) == serverName \o <<":", ":">> \o toolName

\* `${serverCfg.name}::${tool.name}::chunk${i}`
chunkToolId(serverName, toolName, i) ==
  serverName \o <<":", ":">> \o toolName \o <<":", ":", "c", "h", "u", "n", "k">> \o Decimal(i)

\* The vector the embedding service answers for a text: the service is a
\* deterministic function of the text, kept uninterpreted.
embeddingOf(text) == <<"v">> \o text

\* `${tool.name}: ${tool.description}` chunked with the indexer's configuration.
toolChunks(tool) ==
  chunkText(tool.name \o <<":", " ">> \o tool.description, tool.name,
            [maxChunkChars |-> cfgIndexer.maxChunkChars,
             overlapChars |-> cfgIndexer.overlapChars])

\* The McpToolEntry the indexer builds for chunk i (0-based) of a tool.
toolEntry(serverName, tool, chunks, i) ==
  [tool_id |-> IF Len(chunks) = 1
                 THEN singleToolId(serverName, tool.name)
                 ELSE chunkToolId(serverName, tool.name, i),
   server_name |-> serverName,
   tool_name |-> tool.name,
   description |-> tool.description,
   parameters_json |-> JsonStringify(tool.inputSchema),
   vector |-> embeddingOf(chunks[i + 1].text)]

\* McpToolVectorStore.upsertTool, first half: table.delete(`tool_id = '...'`).
upsertDelete(rows, entry) == {r \in rows : r.tool_id # entry.tool_id}

\* McpToolVectorStore.upsertTool, second half: table.add([entry]).
upsertAdd(rows, entry) == rows \cup {entry}

\* McpToolVectorStore.deleteToolChunks
deleteToolChunks(rows, serverName, toolName) ==
  {r \in rows : ~(r.server_name = serverName /\ r.tool_name = toolName)}

\* McpToolVectorStore.addToolEntries
addToolEntries(rows, entries) == rows \cup {entries[k] : k \in 1..Len(entries)}

NoOwner == <<>>

NoValue == [name |-> <<>>, indexed |-> 0, failed |-> 0, error |-> ""]

NoResult == [indexed |-> 0, failed |-> 0, servers |-> <<>>]

AbortReason == "aborted"

\* A task before its first attempt. Besides the locals of indexServer
\* (attempt, tools, the position idx in tools, the chunk index ci, entries,
\* indexed, failed) and the settled promise (value, reason) it counts what the
\* task did in this run: connect attempts (connects), the connects that
\* failed before the first one that succeeded (leadFails), whether a connect
\* succeeded (connected), backoff sleeps and warn-level log entries.
FreshTask ==
  [pc |-> "init", attempt |-> 0, tools |-> <<>>, idx |-> 0, ci |-> 0,
   entries |-> <<>>, indexed |-> 0, failed |-> 0,
   value |-> NoValue, reason |-> "", clientOpen |-> FALSE, delay |-> 0,
   connects |-> 0, leadFails |-> 0, connected |-> FALSE, sleeps |-> 0,
   warns |-> 0]

Settled(t) == t.pc \in {"fulfilled", "rejected"}

\* The task ran its tool loop to the end and returned {name, indexed, failed}.
Returned(t) == t.pc = "fulfilled" /\ t.value.error = ""

\* The task gave up after its last attempt: {indexed: 0, failed: 1, error}.
GaveUp(t) == t.pc = "fulfilled" /\ t.value.error # ""

\* ------------------------------------------------------------------------
\* indexServer, as steps between its suspension points
\* ------------------------------------------------------------------------

\* McpClient.disconnect
disconnect(t) == [t EXCEPT !.clientOpen = FALSE]

\* The locals of the tool loop go out of scope when the task settles.
settle(t) == [disconnect(t) EXCEPT !.idx = 0, !.ci = 0, !.entries = <<>>]

\* An exception leaving indexServer: the finally block disconnects and the
\* task's promise rejects.
rejectTask(t, reason) == [settle(t) EXCEPT !.pc = "rejected", !.reason = reason]

\* An exception reaches the catch block of an attempt: the block awaits the
\* client's disconnect and keeps the message. When the signal is aborted the
\* rethrow that follows the disconnect is already decided.
attemptFailed(s, t, msg, aborted) ==
  IF aborted
    THEN rejectTask(t, AbortReason)
    ELSE [disconnect(t) EXCEPT !.pc = "catching", !.reason = msg]

\* Variant of catchDone whose last-attempt test is off by one.
catchDoneOneMore(s, t, aborted) ==
  IF aborted
    THEN rejectTask(t, AbortReason)
    ELSE IF t.attempt = maxRetries + 1
      THEN [settle(t) EXCEPT
              !.pc = "fulfilled",
              !.warns = @ + 1,
              !.reason = "",
              !.value = [name |-> servers[s].name, indexed |-> 0, failed |-> 1,
                         error |-> t.reason]]
      ELSE [t EXCEPT !.pc = "retry", !.attempt = @ + 1, !.reason = ""]

\* The rest of the catch block after its disconnect: the rethrow on
\* cancellation, the result of the last attempt, or on to the finally block
\* and the next attempt.
catchDone(s, t, aborted) ==
  IF aborted
    THEN rejectTask(t, AbortReason)
    ELSE IF t.attempt = (maxRetries + 1) - 1
      THEN [settle(t) EXCEPT
              !.pc = "fulfilled",
              !.warns = @ + 1,
              !.reason = "",
              !.value = [name |-> servers[s].name, indexed |-> 0, failed |-> 1,
                         error |-> t.reason]]
      ELSE [t EXCEPT !.pc = "retry", !.attempt = @ + 1, !.reason = ""]

\* new McpClient(serverCfg); client.connect({signal, timeout}) up to the
\* transport's connect.
openClient(s, t, aborted) ==
  IF aborted
    THEN attemptFailed(s, t, AbortReason, aborted)
    ELSE [t EXCEPT !.pc = "connecting", !.clientOpen = TRUE, !.connects = @ + 1]

\* The backoff delay before attempt number `attempt`.
backoffDelay(attempt) ==
  Min(cfgIndexer.initialRetryDelay * 2 ^ (attempt - 1), cfgIndexer.maxRetryDelay)

\* Variant of loopTop and connect without their cancellation checks.
loopTopIgnoringSignal(s, t, aborted) ==
  IF t.attempt > 0
    THEN [t EXCEPT !.pc = "sleep", !.sleeps = @ + 1, !.delay = backoffDelay(t.attempt)]
    ELSE openClient(s, t, FALSE)

\* The head of the attempt loop: the cancellation check, then the backoff
\* sleep of a retry or, on the first attempt, the connect.
loopTop(s, t, aborted) ==
  IF aborted
    THEN rejectTask(t, AbortReason)
    ELSE IF t.attempt > 0
      THEN [t EXCEPT !.pc = "sleep", !.sleeps = @ + 1, !.delay = backoffDelay(t.attempt)]
      ELSE openClient(s, t, aborted)

\* Variant of the backoff sleep as a plain timer that ignores the signal.
onAbortPlainDelay(t) == t

\* abortableDelay's abort listener: a sleeping task rejects with the reason.
onAbort(t) == IF t.pc = "sleep" THEN rejectTask(t, AbortReason) ELSE t

\* Variant of the head of the tool loop whose multi-chunk path starts with
\* the embeddings, without deleteToolChunks.
enterToolWithoutDelete(s, t, aborted) ==
  IF t.idx > Len(t.tools)
    THEN [settle(t) EXCEPT
            !.pc = "fulfilled",
            !.value = [name |-> servers[s].name, indexed |-> t.indexed,
                       failed |-> t.failed, error |-> ""]]
    ELSE IF aborted
      THEN attemptFailed(s, t, AbortReason, aborted)
      ELSE IF Len(toolChunks(t.tools[t.idx])) = 1
        THEN [t EXCEPT !.pc = "embed1", !.entries = <<>>, !.ci = 0]
        ELSE [t EXCEPT !.pc = "embedN", !.entries = <<>>, !.ci = 0]

\* The head of the tool loop for tools[idx]: the return after the last tool,
\* the cancellation check, then the first call of the tool's path.
enterTool(s, t, aborted) ==
  IF t.idx > Len(t.tools)
    THEN [settle(t) EXCEPT
            !.pc = "fulfilled",
            !.value = [name |-> servers[s].name, indexed |-> t.indexed,
                       failed |-> t.failed, error |-> ""]]
    ELSE IF aborted
      THEN attemptFailed(s, t, AbortReason, aborted)
      ELSE IF Len(toolChunks(t.tools[t.idx])) = 1
        THEN [t EXCEPT !.pc = "embed1", !.entries = <<>>, !.ci = 0]
        ELSE [t EXCEPT !.pc = "deleting", !.entries = <<>>, !.ci = 0]

\* Variant of the per-tool catch block that ends the tool loop at the first
\* failed tool.
toolFailedStops(s, t, err, aborted) ==
  IF aborted
    THEN attemptFailed(s, t, AbortReason, aborted)
    ELSE [settle(t) EXCEPT
            !.pc = "fulfilled", !.warns = @ + 1, !.failed = @ + 1,
            !.value = [name |-> servers[s].name, indexed |-> t.indexed,
                       failed |-> t.failed + 1, error |-> ""]]

\* The per-tool catch block: rethrow on cancellation, else warn, count the
\* failure and go on with the next tool.
toolFailed(s, t, err, aborted) ==
  IF aborted
    THEN attemptFailed(s, t, AbortReason, aborted)
    ELSE enterTool(s, [t EXCEPT !.warns = @ + 1, !.failed = @ + 1, !.idx = @ + 1],
                   aborted)

\* Variant of the step to the next tool that passes over a tool.
toolDoneSkipsATool(s, t, aborted) ==
  enterTool(s, [t EXCEPT !.indexed = @ + 1, !.idx = @ + 2], aborted)

\* registry.registerToolOwner(tool.name, serverCfg.name); indexed++ and on
\* to the next tool.
toolDone(s, t, aborted) ==
  enterTool(s, [t EXCEPT !.indexed = @ + 1, !.idx = @ + 1], aborted)

\* ------------------------------------------------------------------------
\* Registry (mcp-registry.ts)
\* ------------------------------------------------------------------------

\* Variant of registerToolOwner that keeps the first binding of a name.
registerToolOwnerKeepFirst(map, toolName, serverName) ==
  IF map[toolName] # NoOwner THEN map ELSE [map EXCEPT ![toolName] = serverName]

\* McpRegistry.registerToolOwner: the new toolOwnerMap.
registerToolOwner(map, toolName, serverName) == [map EXCEPT ![toolName] = serverName]

\* The warnings registerToolOwner emits: one when the name is already bound.
registerWarnings(map, toolName) == IF map[toolName] # NoOwner THEN 1 ELSE 0

\* McpRegistry.resolveServer: the descriptor of the owner, or NoOwner.
resolveServer(map, toolName) ==
  IF toolName \notin DOMAIN map \/ map[toolName] = NoOwner
    THEN NoOwner
    ELSE LET named == {i \in Servers : servers[i].name = map[toolName]}
         IN IF named = {} THEN NoOwner ELSE servers[CHOOSE i \in named : TRUE]

\* ------------------------------------------------------------------------
\* Actions of an indexer run
\* ------------------------------------------------------------------------

\* runIndexer is called: every indexServer runs to its first suspension point.
StartRun(aborted) ==
  /\ runStatus \in {"idle", "resolved"}
  /\ runs < runLimit
  /\ runs' = runs + 1
  /\ runStatus' = "running"
  /\ signalAborted' = aborted
  /\ preAborted' = aborted
  /\ task' = [s \in Servers |-> loopTop(s, FreshTask, aborted)]
  /\ registryWarns' = 0
  /\ runWarns' = 0
  /\ result' = NoResult
  /\ UNCHANGED <<servers, maxRetries, runLimit, everyRunSucceeded, store, toolOwnerMap, callVars, otherVars>>

\* The signal of the run is aborted: the abort listeners run.
Abort ==
  /\ runStatus = "running"
  /\ ~signalAborted
  /\ signalAborted' = TRUE
  /\ task' = [s \in Servers |-> onAbort(task[s])]
  /\ UNCHANGED <<servers, maxRetries, runLimit, everyRunSucceeded, runStatus, runs, preAborted,
                 store, toolOwnerMap,
                 registryWarns, runWarns, result, callVars, otherVars>>

StepTask(s, t) ==
  /\ task' = [task EXCEPT ![s] = t]
  /\ UNCHANGED <<servers, maxRetries, runLimit, everyRunSucceeded, runStatus, runs,
                 signalAborted, preAborted,
                 registryWarns, runWarns, result, callVars, otherVars>>

\* client.connect resolves: listTools is called.
ConnectOk(s) ==
  /\ runStatus = "running" /\ task[s].pc = "connecting"
  /\ StepTask(s, [task[s] EXCEPT !.pc = "listing", !.connected = TRUE])
  /\ UNCHANGED <<store, toolOwnerMap>>

\* client.connect rejects.
ConnectFail(s) ==
  /\ runStatus = "running" /\ task[s].pc = "connecting"
  /\ StepTask(s, attemptFailed(s, [task[s] EXCEPT
                                      !.leadFails = IF task[s].connected THEN @ ELSE @ + 1],
                                "Connection refused", signalAborted))
  /\ UNCHANGED <<store, toolOwnerMap>>

\* client.listTools resolves with a list: the tool loop starts.
ListOk(s) ==
  /\ runStatus = "running" /\ task[s].pc = "listing"
  /\ \E tools \in ToolLists(servers[s]) :
       StepTask(s, enterTool(s, [task[s] EXCEPT !.tools = tools, !.idx = 1,
                                                !.indexed = 0, !.failed = 0],
                             signalAborted))
  /\ UNCHANGED <<store, toolOwnerMap>>

\* client.listTools rejects.
ListFail(s) ==
  /\ runStatus = "running" /\ task[s].pc = "listing"
  /\ StepTask(s, attemptFailed(s, task[s], "listTools failed", signalAborted))
  /\ UNCHANGED <<store, toolOwnerMap>>

\* The catch block's disconnect is over.
CatchDone(s) ==
  /\ runStatus = "running" /\ task[s].pc = "catching"
  /\ StepTask(s, catchDone(s, task[s], signalAborted))
  /\ UNCHANGED <<store, toolOwnerMap>>

\* The finally block's disconnect of a failed attempt is over: the loop goes on.
Retry(s) ==
  /\ runStatus = "running" /\ task[s].pc = "retry"
  /\ StepTask(s, loopTop(s, task[s], signalAborted))
  /\ UNCHANGED <<store, toolOwnerMap>>

\* The backoff timer fires: the next attempt connects.
TimerFire(s) ==
  /\ runStatus = "running" /\ task[s].pc = "sleep"
  /\ StepTask(s, openClient(s, task[s], signalAborted))
  /\ UNCHANGED <<store, toolOwnerMap>>

\* embeddings.embed resolves.
EmbedOk(s) ==
  /\ runStatus = "running" /\ task[s].pc \in {"embed1", "embedN"}
  /\ LET t == task[s]
         tool == t.tools[t.idx]
         chunks == toolChunks(tool)
         entry == toolEntry(servers[s].name, tool, chunks, t.ci)
         t1 == [t EXCEPT !.entries = Append(@, entry), !.ci = @ + 1]
     IN IF t.pc = "embed1"
          THEN StepTask(s, [t1 EXCEPT !.pc = "upsertDelete"])
          ELSE IF t1.ci < Len(chunks)
            THEN IF signalAborted
                   THEN StepTask(s, toolFailed(s, t1, AbortReason, signalAborted))
                   ELSE StepTask(s, t1)
            ELSE StepTask(s, [t1 EXCEPT !.pc = "adding"])
  /\ UNCHANGED <<store, toolOwnerMap>>

\* The messages embeddings.embed rejects with: the service is not reachable,
\* answers a non-2xx status, or answers without data[0].embedding.
EmbedErrors == {"not reachable", "returned HTTP", "missing embedding"}

\* embeddings.embed rejects with err.
EmbedFail(s, err) ==
  /\ runStatus = "running" /\ task[s].pc \in {"embed1", "embedN"}
  /\ StepTask(s, toolFailed(s, task[s], err, signalAborted))
  /\ UNCHANGED <<store, toolOwnerMap>>

\* A store call (upsertTool, deleteToolChunks, addToolEntries) rejects.
StoreFail(s) ==
  /\ runStatus = "running"
  /\ task[s].pc \in {"upsertDelete", "upsertAdd", "deleting", "adding"}
  /\ StepTask(s, toolFailed(s, task[s], "store error", signalAborted))
  /\ UNCHANGED <<store, toolOwnerMap>>

\* upsertTool deletes the row of the entry's tool_id.
UpsertDelete(s) ==
  /\ runStatus = "running" /\ task[s].pc = "upsertDelete"
  /\ store' = upsertDelete(store, task[s].entries[1])
  /\ StepTask(s, [task[s] EXCEPT !.pc = "upsertAdd"])
  /\ UNCHANGED toolOwnerMap

\* The registration and the next tool after a tool's rows are written.
Registered(s) ==
  LET t == task[s]
      name == t.tools[t.idx].name
  IN /\ toolOwnerMap' = registerToolOwner(toolOwnerMap, name, servers[s].name)
     /\ registryWarns' = registryWarns + registerWarnings(toolOwnerMap, name)
     /\ task' = [task EXCEPT ![s] = toolDone(s, t, signalAborted)]
     /\ UNCHANGED <<servers, maxRetries, runLimit, everyRunSucceeded, runStatus, runs,
                 signalAborted, preAborted,
                    runWarns, result, callVars, otherVars>>

\* upsertTool adds the entry and resolves.
UpsertAdd(s) ==
  /\ runStatus = "running" /\ task[s].pc = "upsertAdd"
  /\ store' = upsertAdd(store, task[s].entries[1])
  /\ Registered(s)

\* deleteToolChunks resolves: the chunk loop starts.
DeleteToolChunks(s) ==
  /\ runStatus = "running" /\ task[s].pc = "deleting"
  /\ LET t == task[s]
     IN /\ store' = deleteToolChunks(store, servers[s].name, t.tools[t.idx].name)
        /\ IF signalAborted
             THEN StepTask(s, toolFailed(s, t, AbortReason, signalAborted))
             ELSE StepTask(s, [t EXCEPT !.pc = "embedN"])
  /\ UNCHANGED toolOwnerMap

\* addToolEntries resolves.
AddToolEntries(s) ==
  /\ runStatus = "running" /\ task[s].pc = "adding"
  /\ store' = addToolEntries(store, task[s].entries)
  /\ Registered(s)

\* ------------------------------------------------------------------------
\* runIndexer: the join of the tasks
\* ------------------------------------------------------------------------

\* The servers[] entry runIndexer pushes for a settled task.
serverEntry(t) ==
  IF t.pc = "fulfilled"
    THEN t.value
    ELSE [name |-> <<"u", "n", "k", "n", "o", "w", "n">>, indexed |-> 0, failed |-> 1,
          error |-> t.reason]

RECURSIVE sumOver(_, _, _)
sumOver(entries, k, field) ==
  IF k > Len(entries) THEN 0
  ELSE (IF field = "indexed" THEN entries[k].indexed ELSE entries[k].failed)
       + sumOver(entries, k + 1, field)

\* Variant of the join with Promise.all: the run rejects with a rejected task.
joinAllFailFast(tasks) ==
  IF \E s \in Servers : tasks[s].pc = "rejected" THEN "rejected"
  ELSE IF \A s \in Servers : Settled(tasks[s]) THEN "resolved" ELSE "running"

\* Promise.allSettled: the run waits for every task and never rejects.
joinAll(tasks) ==
  IF \A s \in Servers : Settled(tasks[s]) THEN "resolved" ELSE "running"

\* runIndexer's loop over the settled results.
Collect ==
  /\ runStatus = "running"
  /\ joinAll(task) # "running"
  /\ runStatus' = joinAll(task)
  /\ LET entries == [s \in Servers |-> serverEntry(task[s])]
     IN result' = IF joinAll(task) = "resolved"
                    THEN [indexed |-> sumOver(entries, 1, "indexed"),
                          failed |-> sumOver(entries, 1, "failed"),
                          servers |-> entries]
                    ELSE NoResult
  /\ runWarns' = Cardinality({s \in Servers : task[s].pc = "rejected"})
  /\ everyRunSucceeded' =
       (everyRunSucceeded /\ \A s \in Servers : Returned(task[s]) /\ task[s].value.failed = 0)
  /\ UNCHANGED <<servers, maxRetries, runLimit, runs, signalAborted, preAborted, task, store,
                 toolOwnerMap, registryWarns, callVars, otherVars>>

\* ------------------------------------------------------------------------
\* mcp_call (tools/mcp-call-tool.ts)
\* ------------------------------------------------------------------------

\* String.prototype.trim
WhiteSpace == {" ", "\n", "\t", "\r"}

RECURSIVE TrimStart(_)
TrimStart(str) ==
  IF str # <<>> /\ Head(str) \in WhiteSpace THEN TrimStart(Tail(str)) ELSE str

RECURSIVE TrimEnd(_)
TrimEnd(str) ==
  IF str # <<>> /\ str[Len(str)] \in WhiteSpace
    THEN TrimEnd(SubSeq(str, 1, Len(str) - 1))
    ELSE str

Trim(str) == TrimEnd(TrimStart(str))

\* JSON.parse over the grammar of objects, arrays, strings without escapes,
\* unsigned integers, null, true and false. A result is the kind of the value
\* (what typeof and Array.isArray tell of it), its text without insignificant
\* white space, and the rest of the input.
ParseFail == [ok |-> FALSE, kind |-> "", text |-> <<>>, rest |-> <<>>]

Digits == {"0", "1", "2", "3", "4", "5", "6", "7", "8", "9"}

StartsWith(str, lit) == Len(str) >= Len(lit) /\ SubSeq(str, 1, Len(lit)) = lit

ParseLiteral(str, lit, kind) ==
  IF StartsWith(str, lit)
    THEN [ok |-> TRUE, kind |-> kind, text |-> lit,
          rest |-> SubSeq(str, Len(lit) + 1, Len(str))]
    ELSE ParseFail

ParseString(str) ==
  IF str = <<>> \/ Head(str) # "\"" THEN ParseFail
  ELSE LET close == IndexOf(Tail(str), <<"\"">>)
       IN IF close = 0 THEN ParseFail
          ELSE [ok |-> TRUE, kind |-> "string", text |-> SubSeq(str, 1, close + 1),
                rest |-> SubSeq(str, close + 2, Len(str))]

RECURSIVE DigitRun(_)
DigitRun(str) == IF str # <<>> /\ Head(str) \in Digits THEN 1 + DigitRun(Tail(str)) ELSE 0

ParseNumber(str) ==
  LET n == IF Head(str) = "0" THEN 1 ELSE DigitRun(str)
  IN [ok |-> TRUE, kind |-> "number", text |-> SubSeq(str, 1, n),
      rest |-> SubSeq(str, n + 1, Len(str))]

RECURSIVE ParseValue(_)
RECURSIVE ParseMembers(_, _)
RECURSIVE ParseElements(_, _)

ParseValue(str0) ==
  LET str == TrimStart(str0)
  IN IF str = <<>> THEN ParseFail
     ELSE IF Head(str) = "{"
       THEN LET inner == TrimStart(Tail(str))
            IN IF inner # <<>> /\ Head(inner) = "}"
                 THEN [ok |-> TRUE, kind |-> "object", text |-> <<"{", "}">>,
                       rest |-> Tail(inner)]
                 ELSE ParseMembers(inner, <<"{">>)
     ELSE IF Head(str) = "["
       THEN LET inner == TrimStart(Tail(str))
            IN IF inner # <<>> /\ Head(inner) = "]"
                 THEN [ok |-> TRUE, kind |-> "array", text |-> <<"[", "]">>,
                       rest |-> Tail(inner)]
                 ELSE ParseElements(inner, <<"[">>)
     ELSE IF Head(str) = "\"" THEN ParseString(str)
     ELSE IF Head(str) \in Digits THEN ParseNumber(str)
     ELSE IF Head(str) = "n" THEN ParseLiteral(str, <<"n", "u", "l", "l">>, "null")
     ELSE IF Head(str) = "t" THEN ParseLiteral(str, <<"t", "r", "u", "e">>, "boolean")
     ELSE IF Head(str) = "f" THEN ParseLiteral(str, <<"f", "a", "l", "s", "e">>, "boolean")
     ELSE ParseFail

ParseMembers(str, acc) ==
  LET key == ParseString(TrimStart(str))
  IN IF ~key.ok THEN ParseFail
     ELSE LET colon == TrimStart(key.rest)
          IN IF colon = <<>> \/ Head(colon) # ":" THEN ParseFail
             ELSE LET val == ParseValue(Tail(colon))
                  IN IF ~val.ok THEN ParseFail
                     ELSE LET next == TrimStart(val.rest)
                              acc2 == acc \o key.text \o <<":">> \o val.text
                          IN IF next = <<>> THEN ParseFail
                             ELSE IF Head(next) = "}"
                               THEN [ok |-> TRUE, kind |-> "object",
                                     text |-> acc2 \o <<"}">>, rest |-> Tail(next)]
                             ELSE IF Head(next) = ","
                               THEN ParseMembers(Tail(next), acc2 \o <<",">>)
                             ELSE ParseFail

ParseElements(str, acc) ==
  LET val == ParseValue(str)
  IN IF ~val.ok THEN ParseFail
     ELSE LET next == TrimStart(val.rest)
              acc2 == acc \o val.text
          IN IF next = <<>> THEN ParseFail
             ELSE IF Head(next) = "]"
               THEN [ok |-> TRUE, kind |-> "array", text |-> acc2 \o <<"]">>,
                     rest |-> Tail(next)]
             ELSE IF Head(next) = ","
               THEN ParseElements(Tail(next), acc2 \o <<",">>)
             ELSE ParseFail

JsonParse(text) ==
  LET val == ParseValue(text)
  IN IF val.ok /\ TrimStart(val.rest) = <<>> THEN val ELSE ParseFail

\* The values a caller passes in params.tool_name and params.params_json: a
\* string, a number, or nothing.
JsString(str) == [type |-> "string", str |-> str]

JsNumber == [type |-> "number", str |-> <<>>]

JsUndefined == [type |-> "undefined", str |-> <<>>]

callParams(toolName, paramsJson) == [tool_name |-> toolName, params_json |-> paramsJson]

TextEmptyObject == <<" ", "{", "}", " ">>

TextObject == <<"{", "\"", "k", "\"", ":", "1", "}">>

TextArray == <<"[", "]">>

TextNull == <<"n", "u", "l", "l">>

TextMalformed == <<"{">>

TextTrailing == <<"{", "}", "x">>

TextNumber == <<"1">>

\* The arguments of the invocations: tool names that are missing, not a
\* string, blank, bound (r, w) or never listed (z), each with parameters
\* that are missing, not a string, an object, not an object or malformed.
ParamsInputs ==
  { callParams(JsUndefined, JsString(TextMalformed)),
    callParams(JsNumber, JsString(TextArray)),
    callParams(JsString(<<" ">>), JsUndefined),
    callParams(JsString(<<"z">>), JsString(TextNull)),
    callParams(JsString(<<"z">>), JsString(TextEmptyObject)),
    callParams(JsString(<<" ", "r", " ">>), JsString(TextArray)),
    callParams(JsString(<<" ", "r", " ">>), JsString(TextNull)),
    callParams(JsString(<<" ", "r", " ">>), JsString(TextMalformed)),
    callParams(JsString(<<" ", "r", " ">>), JsString(TextTrailing)),
    callParams(JsString(<<" ", "r", " ">>), JsString(TextEmptyObject)),
    callParams(JsString(<<" ", "r", " ">>), JsString(<<>>)),
    callParams(JsString(<<" ", "r", " ">>), JsUndefined),
    callParams(JsString(<<"w">>), JsString(TextNumber)),
    callParams(JsString(<<"w">>), JsNumber),
    callParams(JsString(<<"w">>), JsString(TextObject)) }

NoParams == [tool_name |-> JsUndefined, params_json |-> JsUndefined]

\* The result execute returns: which of its cards (by details.error, "result"
\* for the tool's own content, "error" for the card of a catch block) and the
\* other fields of details.
NoCard == [kind |-> "", tool |-> <<>>, server |-> <<>>, isError |-> FALSE, backend |-> ""]

validationCard(kind, toolName) ==
  [kind |-> kind, tool |-> IF kind = "unknown_tool" THEN toolName ELSE <<>>,
   server |-> <<>>, isError |-> FALSE, backend |-> ""]

toolNameOf(params) ==
  IF params.tool_name.type = "string" THEN Trim(params.tool_name.str) ELSE <<>>

rawJsonOf(params) ==
  IF params.params_json.type = "string" THEN Trim(params.params_json.str) ELSE <<"{", "}">>

\* The try block around JSON.parse: the object, or the failure the catch
\* block turns into the invalid_json card.
parseParams(rawJson) ==
  LET parsed == JsonParse(IF rawJson = <<>> THEN <<"{", "}">> ELSE rawJson)
  IN IF ~parsed.ok \/ parsed.kind # "object" THEN ParseFail ELSE parsed

\* Variant of validate that resolves the server before it parses params_json.
validateResolvingFirst(map, params) ==
  IF toolNameOf(params) = <<>>
    THEN validationCard("missing_tool_name", toolNameOf(params))
  ELSE IF resolveServer(map, toolNameOf(params)) = NoOwner
    THEN validationCard("unknown_tool", toolNameOf(params))
  ELSE IF ~parseParams(rawJsonOf(params)).ok
    THEN validationCard("invalid_json", toolNameOf(params))
  ELSE NoCard

\* The checks of execute before a backend is used: the card of the first
\* check that fails, or NoCard.
validate(map, params) ==
  IF toolNameOf(params) = <<>>
    THEN validationCard("missing_tool_name", toolNameOf(params))
  ELSE IF ~parseParams(rawJsonOf(params)).ok
    THEN validationCard("invalid_json", toolNameOf(params))
  ELSE IF resolveServer(map, toolNameOf(params)) = NoOwner
    THEN validationCard("unknown_tool", toolNameOf(params))
  ELSE NoCard

\* An invocation of execute: its position, its argument, its locals
\* (toolName, toolParams, the name of serverCfg, the client as a position in
\* clients, 0 for none), the card it returns, the state of its promise and
\* the warn-level log entries it wrote.
FreshCall ==
  [pc |-> "idle", params |-> NoParams, toolName |-> <<>>, toolParams |-> <<>>,
   server |-> <<>>, client |-> 0, card |-> NoCard, outcome |-> "pending", warns |-> 0]

Invocations == 1..MaxCalls

\* An McpClient: the invocation that constructed it, whether its SDK client
\* is set (this.client), and the calls made on it, each with its caller.
newClient(i) == [by |-> i, open |-> FALSE, log |-> <<>>]

clientCall(cl, op, i) == [cl EXCEPT !.log = Append(@, [op |-> op, by |-> i])]

\* McpClient.connect up to the transport's connect.
clientConnect(cl, i) == [clientCall(cl, "connect", i) EXCEPT !.open = TRUE]

\* McpClient.disconnect: close() of the SDK client when one is set.
clientClosed(cl) == [cl EXCEPT !.open = FALSE]

resolveWith(inv, card) == [inv EXCEPT !.pc = "done", !.card = card, !.outcome = "resolved"]

resultCard(inv, isError, backend) ==
  [kind |-> "result", tool |-> inv.toolName, server |-> inv.server, isError |-> isError,
   backend |-> backend]

errorCard(inv, backend) ==
  [kind |-> "error", tool |-> inv.toolName, server |-> inv.server, isError |-> TRUE,
   backend |-> backend]

\* execute up to its first await.
executeStart(inv, params, map, mode, clientId) ==
  LET card == validate(map, params)
      inv1 == [inv EXCEPT !.params = params]
      inv2 == [inv1 EXCEPT !.toolName = toolNameOf(params),
                           !.toolParams = parseParams(rawJsonOf(params)).text,
                           !.server = resolveServer(map, toolNameOf(params)).name]
  IN IF card # NoCard THEN resolveWith(inv1, card)
     ELSE IF mode = "mcporter-cli" THEN [inv2 EXCEPT !.pc = "cli"]
     ELSE [inv2 EXCEPT !.pc = "connecting", !.client = clientId]

\* Variant of the SDK branch without its finally block: the catch block
\* returns the card and the client is left as it is.
catchWithoutFinally(i, inv, cl) ==
  [inv |-> resolveWith([inv EXCEPT !.warns = @ + 1], errorCard(inv, "sdk")), cl |-> cl]

\* The catch block of the SDK branch, then the finally block's disconnect.
catchAndFinally(i, inv, cl) ==
  [inv |-> [inv EXCEPT !.warns = @ + 1, !.card = errorCard(inv, "sdk"), !.pc = "closing"],
   cl |-> clientCall(cl, "disconnect", i)]

\* The return of the SDK branch, then the finally block's disconnect.
returnAndFinally(i, inv, cl, isError) ==
  [inv |-> [inv EXCEPT !.card = resultCard(inv, isError, "sdk"), !.pc = "closing"],
   cl |-> clientCall(cl, "disconnect", i)]

CallStep(i, inv) ==
  /\ call' = [call EXCEPT ![i] = inv]
  /\ UNCHANGED <<callMode, indexerVars, otherVars>>

ClientStep(i, pair) ==
  /\ clients' = [clients EXCEPT ![call[i].client] = pair.cl]
  /\ CallStep(i, pair.inv)

\* execute is called with params.
Execute(i, params) ==
  /\ call[i].pc = "idle"
  /\ \A j \in Invocations : j < i => call[j].pc # "idle"
  /\ LET inv == executeStart(call[i], params, toolOwnerMap, callMode, Len(clients) + 1)
     IN /\ CallStep(i, inv)
        /\ clients' = IF inv.client = 0 THEN clients
                      ELSE Append(clients, clientConnect(newClient(i), i))

\* client.connect resolves: callTool is called.
CallConnectOk(i) ==
  /\ call[i].pc = "connecting"
  /\ clients' = [clients EXCEPT ![call[i].client] = clientCall(@, "callTool", i)]
  /\ CallStep(i, [call[i] EXCEPT !.pc = "calling"])

\* client.connect rejects.
CallConnectFail(i) ==
  /\ call[i].pc = "connecting"
  /\ ClientStep(i, catchAndFinally(i, call[i], clients[call[i].client]))

\* client.callTool resolves: with the server's result, or with the isError
\* result McpClient.callTool makes of a rejected request.
CallToolReturns(i, isError) ==
  /\ call[i].pc = "calling"
  /\ ClientStep(i, returnAndFinally(i, call[i], clients[call[i].client], isError))

\* client.disconnect resolves (a rejected close() is swallowed): execute
\* resolves with the card.
CallClosed(i) ==
  /\ call[i].pc = "closing"
  /\ clients' = [clients EXCEPT ![call[i].client] = clientClosed(@)]
  /\ CallStep(i, resolveWith(call[i], call[i].card))

\* callViaMcporterCli resolves after the child process closed.
CliReturns(i, isError) ==
  /\ call[i].pc = "cli"
  /\ CallStep(i, resolveWith(call[i], resultCard(call[i], isError, "mcporter-cli")))
  /\ UNCHANGED clients

\* callViaMcporterCli rejects.
CliThrows(i) ==
  /\ call[i].pc = "cli"
  /\ CallStep(i, resolveWith([call[i] EXCEPT !.warns = @ + 1],
                             errorCard(call[i], "mcporter-cli")))
  /\ UNCHANGED clients

\* ------------------------------------------------------------------------
\* mcp_search (tools/mcp-search-tool.ts)
\* ------------------------------------------------------------------------

\* Numbers are counted in halves, so that a limit may be fractional: Whole(n)
\* is the integer n and Whole(n) + 1 is n + 0.5.
Whole(n) == 2 * n

\* ToIntegerOrInfinity, as Array.prototype.slice applies it to its bounds:
\* truncation towards zero.
ToIntegerOrInfinity(x) == IF x >= 0 THEN x \div 2 ELSE -((-x) \div 2)

\* The values a parameter of mcp_search may have.
numberParam(x) == [type |-> "number", str |-> <<>>, num |-> x]

stringParam(str) == [type |-> "string", str |-> str, num |-> 0]

absentParam == [type |-> "undefined", str |-> <<>>, num |-> 0]

searchParams(query, limit) == [query |-> query, limit |-> limit]

readStringParam(params, key) ==
  IF params[key].type = "string" THEN params[key] ELSE absentParam

\* !query || !query.trim()
queryMissing(query) ==
  query.type = "undefined" \/ query.str = <<>> \/ Trim(query.str) = <<>>

rawLimitOf(params, cfg) ==
  IF params.limit.type = "number" THEN params.limit.num ELSE cfg.topK

\* Math.max(1, Math.min(20, rawLimit)) without its lower bound.
clampAbove(rawLimit) == Min(Whole(20), rawLimit)

\* Math.max(1, Math.min(20, rawLimit))
clampLimit(rawLimit) == Max(Whole(1), Min(Whole(20), rawLimit))

\* Math.min(60, limit * 3)
fetchLimitOf(limit) == Min(Whole(60), limit * 3)

\* A row of rawResults: the entry's server_name and tool_name, and the score
\* in units of 0.005.
searchResult(serverName, toolName, score) ==
  [server_name |-> serverName, tool_name |-> toolName, score |-> score]

\* `${r.entry.server_name}::${r.entry.tool_name}`
dedupKey(r) == r.server_name \o <<":", ":">> \o r.tool_name

\* Two results fall under the same key of the seen Map.
sameKey(a, b) == dedupKey(a) = dedupKey(b)

\* The loop over rawResults from row k on that never replaces a row it has seen.
RECURSIVE dedupeKeepFirst(_, _, _)
dedupeKeepFirst(rawResults, k, seen) ==
  IF k > Len(rawResults) THEN seen
  ELSE LET r == rawResults[k]
       IN IF \E i \in 1..Len(seen) : sameKey(seen[i], r)
            THEN dedupeKeepFirst(rawResults, k + 1, seen)
            ELSE dedupeKeepFirst(rawResults, k + 1, Append(seen, r))

\* The loop over rawResults from row k on: seen is the Map's values in the
\* insertion order of their keys.
RECURSIVE dedupe(_, _, _)
dedupe(rawResults, k, seen) ==
  IF k > Len(rawResults) THEN seen
  ELSE LET r == rawResults[k]
           at == {i \in 1..Len(seen) : sameKey(seen[i], r)}
       IN IF at = {}
            THEN dedupe(rawResults, k + 1, Append(seen, r))
            ELSE LET i == CHOOSE x \in at : TRUE
                 IN IF r.score > seen[i].score
                      THEN dedupe(rawResults, k + 1, [seen EXCEPT ![i] = r])
                      ELSE dedupe(rawResults, k + 1, seen)

\* Array.prototype.sort((a, b) => b.score - a.score): stable, descending.
RECURSIVE sortByScore(_)
sortByScore(rows) ==
  IF rows = <<>> THEN <<>>
  ELSE LET n == Len(rows)
           sorted == sortByScore(SubSeq(rows, 1, n - 1))
           r == rows[n]
           ahead == {i \in 1..Len(sorted) : sorted[i].score >= r.score}
           at == IF ahead = {} THEN 0 ELSE CHOOSE i \in ahead : \A j \in ahead : j <= i
       IN SubSeq(sorted, 1, at) \o <<r>> \o SubSeq(sorted, at + 1, Len(sorted))

\* Array.prototype.slice(0, limit)
sliceTo(rows, limit) ==
  LET to == Min(Max(ToIntegerOrInfinity(limit), 0), Len(rows))
  IN SubSeq(rows, 1, to)

\* (score * 100).toFixed(0): the score in percent, rounded to the nearest.
scoreStr(score) == (score + 1) \div 2

\* The heading of a card.
searchCard(r) ==
  [tool_name |-> r.tool_name, server_name |-> r.server_name, score |-> scoreStr(r.score)]

\* An invocation of execute: the effective limit, the calls made on the
\* store, the rows the store returned, the ranked results, and the result
\* returned (which text, the cards in it and details.count).
FreshSearch ==
  [pc |-> "idle", params |-> searchParams(absentParam, absentParam), limit |-> 0,
   queries |-> <<>>, rawResults |-> <<>>, results |-> <<>>, kind |-> "",
   cards |-> <<>>, count |-> 0]

searchReturn(inv, kind, results) ==
  [inv EXCEPT !.pc = "done", !.kind = kind, !.results = results,
              !.cards = [i \in 1..Len(results) |-> searchCard(results[i])],
              !.count = Len(results)]

\* execute up to its first await: the query check, the limit, embed(query).
searchStart(inv, params, cfg) ==
  IF queryMissing(readStringParam(params, "query"))
    THEN searchReturn([inv EXCEPT !.params = params], "query_required", <<>>)
    ELSE [inv EXCEPT !.pc = "embedding", !.params = params,
                     !.limit = clampLimit(rawLimitOf(params, cfg))]

\* execute after embed resolved: searchTools(vector, fetchLimit, minScore).
searchQuery(inv, cfg) ==
  [inv EXCEPT !.pc = "searching",
              !.queries = Append(@, [topK |-> fetchLimitOf(inv.limit),
                                     minScore |-> cfg.minScore])]

\* execute after searchTools resolved with rawResults.
searchRank(inv, rawResults) ==
  LET results == sliceTo(sortByScore(dedupe(rawResults, 1, <<>>)), inv.limit)
  IN searchReturn([inv EXCEPT !.rawResults = rawResults],
                  IF Len(results) = 0 THEN "none_found" ELSE "found", results)

SearchStep(inv) ==
  /\ search' = inv
  /\ UNCHANGED <<searchCfg, searchFrame>>

\* execute is called with params.
Search(params) ==
  /\ search.pc = "idle"
  /\ SearchStep(searchStart(search, params, searchCfg))

\* embeddings.embed(query) resolves.
SearchEmbedOk ==
  /\ search.pc = "embedding"
  /\ SearchStep(searchQuery(search, searchCfg))

\* embeddings.embed(query) rejects: the error card.
SearchEmbedFail ==
  /\ search.pc = "embedding"
  /\ SearchStep(searchReturn(search, "embedding_failed", <<>>))

\* store.searchTools resolves with rawResults.
SearchReturns(rawResults) ==
  /\ search.pc = "searching"
  /\ SearchStep(searchRank(search, rawResults))

\* store.searchTools rejects: execute rejects.
SearchFails ==
  /\ search.pc = "searching"
  /\ SearchStep([search EXCEPT !.pc = "done", !.kind = "rejected"])

\* ------------------------------------------------------------------------
\* Initialisation of the vector store (vector-store.ts)
\* ------------------------------------------------------------------------

\* The instance before any operation: table and initPromise are null. init is
\* the await doInitialize stands at, initCalls the number of doInitialize
\* calls; tableExists and sentinel tell of the database whether it has the
\* mcp_tools table and whether the table holds the "__schema__" row.
FreshVectorStore(tableExists) ==
  [table |-> "null", initPromise |-> "null", init |-> "none", initCalls |-> 0,
   tableExists |-> tableExists, sentinel |-> FALSE]

\* An operation (upsertTool, searchTools, ...): where it stands, and what it
\* found when it used this.table: whether doInitialize had returned, and
\* whether the sentinel row was in the table.
FreshOp == [pc |-> "idle", op |-> "", initialized |-> FALSE, sentinel |-> FALSE]

StoreOps == 1..MaxOps

StoreOpNames == {"upsertTool", "searchTools"}

\* ensureInitialized up to its return: the fields after it, and whether the
\* caller goes on at once or awaits initPromise.
ensureInitialized(vs) ==
  IF vs.table # "null"
    THEN [vs |-> vs, pc |-> "ready"]
    ELSE IF vs.initPromise # "null"
      THEN [vs |-> vs, pc |-> "awaitInit"]
      ELSE [vs |-> [vs EXCEPT !.initPromise = "pending", !.init = "connecting",
                              !.initCalls = @ + 1],
            pc |-> "awaitInit"]

StoreStep(vs, ops) ==
  /\ vectorStore' = vs
  /\ storeOps' = ops
  /\ UNCHANGED storeInitFrame

\* An operation is called: await this.ensureInitialized().
OpCall(k, op) ==
  /\ storeOps[k].pc = "idle"
  /\ \A j \in StoreOps : j < k => storeOps[j].pc # "idle"
  /\ LET e == ensureInitialized(vectorStore)
     IN StoreStep(e.vs, [storeOps EXCEPT ![k] = [@ EXCEPT !.pc = e.pc, !.op = op]])

\* initPromise settled: the operations awaiting it go on, or reject with it.
OpResume(k) ==
  /\ storeOps[k].pc = "awaitInit"
  /\ vectorStore.initPromise \in {"fulfilled", "rejected"}
  /\ StoreStep(vectorStore,
               [storeOps EXCEPT ![k].pc =
                  IF vectorStore.initPromise = "fulfilled" THEN "ready" ELSE "rejected"])

\* The operation goes on after ensureInitialized and uses this.table.
OpTable(k) ==
  /\ storeOps[k].pc = "ready"
  /\ StoreStep(vectorStore,
               [storeOps EXCEPT ![k] = [@ EXCEPT !.pc = "done",
                                                 !.initialized = (vectorStore.init = "done"),
                                                 !.sentinel = vectorStore.sentinel]])

\* doInitialize: loadLanceDB, connect and tableNames resolved.
InitListed ==
  /\ vectorStore.init = "connecting"
  /\ StoreStep([vectorStore EXCEPT !.init = IF vectorStore.tableExists THEN "opening" ELSE "dims"],
               storeOps)

\* doInitialize: this.table = await openTable, and the return.
InitOpened ==
  /\ vectorStore.init = "opening"
  /\ StoreStep([vectorStore EXCEPT !.table = "open", !.init = "done",
                                   !.initPromise = "fulfilled"],
               storeOps)

\* doInitialize: getDims resolved, createTable with the sentinel row called.
InitDims ==
  /\ vectorStore.init = "dims"
  /\ StoreStep([vectorStore EXCEPT !.init = "creating"], storeOps)

\* doInitialize: this.table = await createTable, then delete of the sentinel
\* called.
InitCreated ==
  /\ vectorStore.init = "creating"
  /\ StoreStep([vectorStore EXCEPT !.table = "open", !.tableExists = TRUE,
                                   !.sentinel = TRUE, !.init = "deleting"],
               storeOps)

\* doInitialize: the delete of the sentinel resolved, and the return.
InitSentinelDeleted ==
  /\ vectorStore.init = "deleting"
  /\ StoreStep([vectorStore EXCEPT !.sentinel = FALSE, !.init = "done",
                                   !.initPromise = "fulfilled"],
               storeOps)

\* doInitialize: the call it awaits rejects, and initPromise with it.
InitFails ==
  /\ vectorStore.init \in {"connecting", "opening", "dims", "creating", "deleting"}
  /\ StoreStep([vectorStore EXCEPT !.init = "failed", !.initPromise = "rejected"], storeOps)

\* ------------------------------------------------------------------------
\* Service and reindex command (index.ts)
\* ------------------------------------------------------------------------

\* JSON.stringify of a servers[] entry, as the pairs of its object: a key
\* whose value is undefined (the error of a task that returned) is left out.
entryToJson(entry) ==
  << <<"name", entry.name>>, <<"indexed", entry.indexed>>, <<"failed", entry.failed>> >>
  \o (IF entry.error = "" THEN <<>> ELSE << <<"error", entry.error>> >>)

\* The name of an entry read back with JSON.parse.
jsonName(pairs) == pairs[1][2]

NoStatusFile == [exists |-> FALSE, servers |-> <<>>]

\* Map.prototype.set into the values of serverMap, a key keeping the position
\* of its first insertion.
mapSet(values, pairs) ==
  LET at == {i \in 1..Len(values) : jsonName(values[i]) = jsonName(pairs)}
  IN IF at = {} THEN Append(values, pairs)
     ELSE [values EXCEPT ![CHOOSE i \in at : TRUE] = pairs]

RECURSIVE mapSetAll(_, _, _)
mapSetAll(values, entries, k) ==
  IF k > Len(entries) THEN values
  ELSE mapSetAll(mapSet(values, entries[k]), entries, k + 1)

\* writeIndexStatus when its write succeeds: the new file.
writeIndexStatus(file, indexResult, merge) ==
  LET existing == IF merge /\ file.exists THEN file.servers ELSE <<>>
      serverMap == mapSetAll(<<>>, existing, 1)
      written == [k \in 1..Len(indexResult.servers) |-> entryToJson(indexResult.servers[k])]
  IN [exists |-> TRUE, servers |-> mapSetAll(serverMap, written, 1)]

\* AbortController.abort on the controller the service holds, if any, left out.
abortHeldNot(ts, held) == ts

\* indexerAbort?.abort(...)
abortHeld(ts, held) ==
  IF held = 0 THEN ts ELSE [ts EXCEPT ![held].aborted = TRUE]

\* cfg.servers, or for reindex --server the servers of that name.
targetServers(target) ==
  IF target = <<>> THEN [k \in 1..Len(servers) |-> servers[k].name]
  ELSE SelectSeq([k \in 1..Len(servers) |-> servers[k].name], LAMBDA n : n = target)

\* What a server task of runIndexer can settle as, and the entry runIndexer
\* pushes for it: the task returned with its tool indexed, it gave up after
\* its last attempt, or (only under an aborted signal) it rejected.
TaskEntries(name, aborted) ==
  {serverEntry(t) :
     t \in {[FreshTask EXCEPT !.pc = "fulfilled",
                              !.value = [name |-> name, indexed |-> 1, failed |-> 0,
                                         error |-> ""]],
            [FreshTask EXCEPT !.pc = "fulfilled",
                              !.value = [name |-> name, indexed |-> 0, failed |-> 1,
                                         error |-> "connect failed"]]}
           \cup (IF aborted THEN {rejectTask(FreshTask, AbortReason)} ELSE {})}

\* The servers[] lists runIndexer can collect over the servers names, from
\* the k-th on.
RECURSIVE RunEntries(_, _, _)
RunEntries(names, k, aborted) ==
  IF k > Len(names) THEN {<<>>}
  ELSE {<<entry>> \o rest : entry \in TaskEntries(names[k], aborted),
                            rest \in RunEntries(names, k + 1, aborted)}

\* The IndexerResult values runIndexer can resolve with over the servers names.
RunResults(names, aborted) ==
  {[indexed |-> sumOver(entries, 1, "indexed"), failed |-> sumOver(entries, 1, "failed"),
    servers |-> entries] : entries \in RunEntries(names, 1, aborted)}

newJob(kind, target, token) ==
  [kind |-> kind, target |-> target, token |-> token, pc |-> "running", result |-> NoResult]

LifecycleStep(held, ts, js, file) ==
  /\ indexerAbort' = held
  /\ tokens' = ts
  /\ jobs' = js
  /\ statusFile' = file
  /\ UNCHANGED lifecycleFrame

\* The service's start, up to its await of runIndexer.
ServiceStart ==
  /\ Len(jobs) < MaxJobs
  /\ LET ts == Append(abortHeld(tokens, indexerAbort), [by |-> "service", aborted |-> FALSE])
     IN LifecycleStep(Len(ts), ts, Append(jobs, newJob("start", <<>>, Len(ts))), statusFile)

\* The service's stop.
ServiceStop ==
  /\ indexerAbort' = 0
  /\ tokens' = abortHeld(tokens, indexerAbort)
  /\ UNCHANGED <<jobs, statusFile, lifecycleFrame>>

\* The reindex command, up to its await of runIndexer; with a --server that
\* is not configured the process exits.
Reindex(target) ==
  /\ Len(jobs) < MaxJobs
  /\ LET ts == Append(tokens, [by |-> "reindex", aborted |-> FALSE])
         job == newJob("reindex", target, Len(ts))
     IN LifecycleStep(indexerAbort, ts,
                      Append(jobs, IF Len(targetServers(target)) = 0
                                     THEN [job EXCEPT !.pc = "exit"] ELSE job),
                      statusFile)

\* SIGINT during a reindex: abort.abort(new Error("interrupted")).
Sigint(j) ==
  /\ j <= Len(jobs)
  /\ jobs[j].kind = "reindex"
  /\ jobs[j].pc = "running"
  /\ ~ tokens[jobs[j].token].aborted
  /\ LifecycleStep(indexerAbort, [tokens EXCEPT ![jobs[j].token].aborted = TRUE], jobs, statusFile)

\* runIndexer resolves and writeIndexStatus writes the file.
RunResolves(j) ==
  /\ j <= Len(jobs)
  /\ jobs[j].pc = "running"
  /\ \E indexResult \in RunResults(targetServers(jobs[j].target), tokens[jobs[j].token].aborted) :
       LifecycleStep(indexerAbort, tokens,
                     [jobs EXCEPT ![j] = [@ EXCEPT !.pc = "written", !.result = indexResult]],
                     writeIndexStatus(statusFile, indexResult, jobs[j].target # <<>>))

\* runIndexer resolves and the write of the file fails: the failure is
\* swallowed.
RunResolvesUnwritten(j) ==
  /\ j <= Len(jobs)
  /\ jobs[j].pc = "running"
  /\ \E indexResult \in RunResults(targetServers(jobs[j].target), tokens[jobs[j].token].aborted) :
       LifecycleStep(indexerAbort, tokens,
                     [jobs EXCEPT ![j] = [@ EXCEPT !.pc = "unwritten", !.result = indexResult]],
                     statusFile)

\* ------------------------------------------------------------------------
\* chunkText, as steps between the iterations of its loops (chunker.ts)
\* ------------------------------------------------------------------------

NoConfig == [maxChunkChars |-> 0, overlapChars |-> 0]

FreshChunker ==
  [pc |-> "idle", text |-> <<>>, toolNamePrefix |-> <<>>, config |-> NoConfig,
   segments |-> <<>>, k |-> 0, chunks |-> <<>>, current |-> <<>>, remaining |-> <<>>,
   result |-> <<>>]

ChunkerStep(c) ==
  /\ chunker' = c
  /\ UNCHANGED chunkerFrame

\* chunkText is called: the fast path, or splitSegments and the start of
\* mergeSegments.
ChunkText(text, toolNamePrefix, config) ==
  /\ chunker.pc = "idle"
  /\ LET called == [chunker EXCEPT !.text = text, !.toolNamePrefix = toolNamePrefix,
                                   !.config = config]
     IN ChunkerStep(IF config.maxChunkChars = 0 \/ Len(text) <= config.maxChunkChars
                      THEN [called EXCEPT !.pc = "done",
                                          !.result = << [index |-> 0, total |-> 1, text |-> text] >>]
                      ELSE [called EXCEPT !.pc = "merging", !.segments = splitSegments(text),
                                          !.k = 1])

\* An iteration of the for loop, up to its while loop when the segment is
\* oversized.
MergeSegment ==
  /\ chunker.pc = "merging"
  /\ chunker.k <= Len(chunker.segments)
  /\ LET segment == chunker.segments[chunker.k]
         fc == finalizeCurrent(segment, chunker.chunks, chunker.current,
                               continuationPrefix(chunker.toolNamePrefix), chunker.config)
     IN ChunkerStep(IF Len(segment) > chunker.config.maxChunkChars
                      THEN [chunker EXCEPT !.pc = "splitting", !.chunks = fc[1],
                                           !.remaining = fc[2] \o segment]
                      ELSE [chunker EXCEPT !.chunks = fc[1], !.current = fc[2] \o segment,
                                           !.k = @ + 1])

\* An iteration of the while loop.
HardSplit ==
  /\ chunker.pc = "splitting"
  /\ Len(chunker.remaining) > chunker.config.maxChunkChars
  /\ Len(chunker.chunks) < MaxChunks
  /\ LET hs == hardSplitOnce(chunker.remaining, chunker.chunks,
                             continuationPrefix(chunker.toolNamePrefix), chunker.config)
     IN ChunkerStep([chunker EXCEPT !.chunks = hs[1], !.remaining = hs[2]])

\* The while loop ends: current = remaining; continue.
HardSplitDone ==
  /\ chunker.pc = "splitting"
  /\ Len(chunker.remaining) <= chunker.config.maxChunkChars
  /\ ChunkerStep([chunker EXCEPT !.pc = "merging", !.current = chunker.remaining,
                                 !.remaining = <<>>, !.k = @ + 1])

\* The for loop ends: the flush of current, and chunkText's return.
MergeDone ==
  /\ chunker.pc = "merging"
  /\ chunker.k > Len(chunker.segments)
  /\ LET chunks == IF Len(chunker.current) > 0
                     THEN Append(chunker.chunks, chunker.current) ELSE chunker.chunks
     IN ChunkerStep([chunker EXCEPT !.pc = "done", !.chunks = chunks,
                                    !.result = indexChunks(chunks)])

\* ------------------------------------------------------------------------
\* Configuration (config.ts: parseConfig; config-writer.ts: resolveRawMcpServers)
\* ------------------------------------------------------------------------

\* An entry of a servers map (the inline mcpServers, or the servers file): its
\* key, its `disabled`, and whether it has a command or a url.
rawServer(name, disabled, launch) == [name |-> name, disabled |-> disabled, launch |-> launch]

\* A resolved McpServerConfig: its name and the source it was read from.
serverConfig(name, source) == [name |-> name, source |-> source]

NoServers == [threw |-> FALSE, servers |-> <<>>]

Threw == [threw |-> TRUE, servers |-> <<>>]

\* parseMcpServersDict from entry k on: a disabled entry is skipped before it
\* is looked at, an entry without command and url throws.
RECURSIVE parseMcpServersDict(_, _, _, _)
parseMcpServersDict(dict, k, source, acc) ==
  IF k > Len(dict) THEN [threw |-> FALSE, servers |-> acc]
  ELSE IF dict[k].disabled THEN parseMcpServersDict(dict, k + 1, source, acc)
  ELSE IF ~dict[k].launch THEN Threw
  ELSE parseMcpServersDict(dict, k + 1, source,
                           Append(acc, serverConfig(dict[k].name, source)))

\* loadMcpServersFile: no server when the file cannot be read.
loadMcpServersFile(file) ==
  IF ~file.readable THEN NoServers ELSE parseMcpServersDict(file.dict, 1, "file", <<>>)

\* parseLegacyServers: every entry of the array, in order; an invalid one throws.
RECURSIVE parseLegacyServers(_, _, _)
parseLegacyServers(serversRaw, k, acc) ==
  IF k > Len(serversRaw) THEN [threw |-> FALSE, servers |-> acc]
  ELSE IF ~serversRaw[k].launch THEN Threw
  ELSE parseLegacyServers(serversRaw, k + 1,
                          Append(acc, serverConfig(serversRaw[k].name, "legacy")))

\* Map.prototype.set(s.name, s) on the values of nameMap: a key keeps the
\* position of its first insertion.
nameMapSet(values, s) ==
  IF \E i \in 1..Len(values) : values[i].name = s.name
    THEN [i \in 1..Len(values) |-> IF values[i].name = s.name THEN s ELSE values[i]]
    ELSE Append(values, s)

RECURSIVE nameMapSetAll(_, _, _)
nameMapSetAll(values, entries, k) ==
  IF k > Len(entries) THEN values
  ELSE nameMapSetAll(nameMapSet(values, entries[k]), entries, k + 1)

\* Variant of the merge in which a file-based server keeps its entry.
mergeServersFileWins(fileServers, inlineServers) ==
  nameMapSetAll(inlineServers, fileServers, 1)

\* new Map(fileServers...); for (s of inlineServers) nameMap.set(s.name, s)
mergeServers(fileServers, inlineServers) ==
  nameMapSetAll(fileServers, inlineServers, 1)

\* The server resolution of parseConfig.
resolveServers(raw) ==
  LET fileServers == loadMcpServersFile(raw.file)
      inlineServers == IF raw.hasInline
                         THEN parseMcpServersDict(raw.mcpServers, 1, "inline", <<>>)
                         ELSE NoServers
  IN IF fileServers.threw \/ inlineServers.threw THEN Threw
     ELSE IF Len(fileServers.servers) > 0 \/ Len(inlineServers.servers) > 0
       THEN [threw |-> FALSE,
             servers |-> mergeServers(fileServers.servers, inlineServers.servers)]
       ELSE IF raw.hasLegacy /\ Len(raw.servers) > 0
         THEN parseLegacyServers(raw.servers, 1, <<>>)
         ELSE NoServers

\* typeof x === "number" ? x : dflt
numberOr(x, dflt) == IF x.type = "number" THEN x.num ELSE dflt

\* typeof x === "number" ? Math.max(0, x) : dflt
clampedOr(x, dflt) == IF x.type = "number" THEN Max(0, x.num) ELSE dflt

\* The search and indexer settings of parseConfig.
resolveSearch(raw) ==
  [topK |-> IF raw.topK.type = "number"
              THEN Min(Whole(20), Max(Whole(1), raw.topK.num))
              ELSE Whole(5)]

resolveIndexer(raw) ==
  [connectTimeout |-> numberOr(raw.indexer.connectTimeout, Whole(60000)),
   maxRetries |-> clampedOr(raw.indexer.maxRetries, Whole(3)),
   initialRetryDelay |-> numberOr(raw.indexer.initialRetryDelay, Whole(2000)),
   maxRetryDelay |-> numberOr(raw.indexer.maxRetryDelay, Whole(30000)),
   maxChunkChars |-> clampedOr(raw.indexer.maxChunkChars, Whole(500)),
   overlapChars |-> clampedOr(raw.indexer.overlapChars, Whole(100))]

\* parseConfig: the McpRouterConfig, or the throw of the server resolution.
parseConfig(raw) ==
  LET resolved == resolveServers(raw)
  IN [threw |-> resolved.threw, servers |-> resolved.servers,
      search |-> resolveSearch(raw), indexer |-> resolveIndexer(raw)]

\* { ...fileDict, ...inlineDict } over the raw entries: a key keeps the
\* position of its first occurrence and takes the value of its last.
resolveRawMcpServers(raw) ==
  nameMapSetAll(IF raw.file.readable THEN raw.file.dict ELSE <<>>,
                IF raw.hasInline THEN raw.mcpServers ELSE <<>>, 1)

NoRaw ==
  [file |-> [readable |-> FALSE, dict |-> <<>>], hasInline |-> FALSE, mcpServers |-> <<>>,
   hasLegacy |-> FALSE, servers |-> <<>>, topK |-> absentParam,
   indexer |-> [connectTimeout |-> absentParam, maxRetries |-> absentParam,
                initialRetryDelay |-> absentParam, maxRetryDelay |-> absentParam,
                maxChunkChars |-> absentParam, overlapChars |-> absentParam]]

NoConfigResult ==
  [threw |-> FALSE, servers |-> <<>>, search |-> [topK |-> 0],
   indexer |-> [connectTimeout |-> 0, maxRetries |-> 0, initialRetryDelay |-> 0,
                maxRetryDelay |-> 0, maxChunkChars |-> 0, overlapChars |-> 0]]

\* The plugin configuration on disk, the configuration the plugin resolved
\* from it (pc: "idle", "parsed" or "threw") and the servers the control
\* commands list from it.
FreshParse ==
  [raw |-> NoRaw, pc |-> "idle", cfg |-> NoConfigResult, listed |-> FALSE, merged |-> <<>>]

ParseStep(p) ==
  /\ parse' = p
  /\ UNCHANGED parseFrame

\* The plugin parses its configuration.
ParseConfig ==
  /\ parse.pc = "idle"
  /\ LET cfg == parseConfig(parse.raw)
     IN ParseStep([parse EXCEPT !.pc = IF cfg.threw THEN "threw" ELSE "parsed",
                                !.cfg = IF cfg.threw THEN NoConfigResult ELSE cfg])

\* A control command (list, stats, control) resolves the raw servers.
ResolveRawMcpServers ==
  /\ ~parse.listed
  /\ ParseStep([parse EXCEPT !.listed = TRUE, !.merged = resolveRawMcpServers(parse.raw)])

\* A field of an entry as written: missing, or a string.
noField == [type |-> "undefined", str |-> ""]

strField(str) == [type |-> "string", str |-> str]

\* An entry of a servers map.
dictEntry(disabled, command, url, serverUrl, type) ==
  [kind |-> "dict", disabled |-> disabled, command |-> command, url |-> url,
   serverUrl |-> serverUrl, type |-> type, transport |-> noField]

\* An entry of the legacy servers array (its name is a proper string).
legacyEntry(transport, command, url) ==
  [kind |-> "legacy", disabled |-> FALSE, command |-> command, url |-> url,
   serverUrl |-> noField, type |-> noField, transport |-> transport]

TransportKinds == {"stdio", "sse", "http"}

NoDescriptor == [transport |-> "", command |-> noField, url |-> noField]

\* parseMcpServersDict on one entry: "skipped", "threw", or the descriptor.
\* The transport is inferred from command, url and serverUrl and then
\* replaced by a type that names a transport.
dictDescriptor(sv) ==
  IF sv.disabled THEN [status |-> "skipped", cfg |-> NoDescriptor]
  ELSE IF sv.command.type # "string" /\ sv.url.type # "string" /\ sv.serverUrl.type # "string"
    THEN [status |-> "threw", cfg |-> NoDescriptor]
  ELSE IF sv.type.type = "string" /\ sv.type.str \notin TransportKinds
    THEN [status |-> "threw", cfg |-> NoDescriptor]
  ELSE [status |-> "resolved",
        cfg |-> [transport |-> IF sv.type.type = "string" THEN sv.type.str
                               ELSE IF sv.command.type = "string" THEN "stdio" ELSE "http",
                 command |-> sv.command,
                 url |-> IF sv.url.type = "string" THEN sv.url ELSE sv.serverUrl]]

\* parseLegacyServers on one entry: a transport, and the command or the url
\* the transport needs, or it throws.
legacyDescriptor(sv) ==
  IF sv.transport.type # "string" \/ sv.transport.str \notin TransportKinds
    THEN [status |-> "threw", cfg |-> NoDescriptor]
  ELSE IF sv.transport.str = "stdio" /\ (sv.command.type # "string" \/ sv.command.str = "")
    THEN [status |-> "threw", cfg |-> NoDescriptor]
  ELSE IF sv.transport.str # "stdio" /\ (sv.url.type # "string" \/ sv.url.str = "")
    THEN [status |-> "threw", cfg |-> NoDescriptor]
  ELSE [status |-> "resolved",
        cfg |-> [transport |-> sv.transport.str, command |-> sv.command, url |-> sv.url]]

\* !this.cfg.command, !this.cfg.url: undefined or the empty string.
falsy(field) == field.type # "string" \/ field.str = ""

\* McpClient.connect up to the construction of the transport: "missing" when
\* it throws for a missing command or url, else "built".
connectTransport(cfg) ==
  IF cfg.transport = "stdio"
    THEN (IF falsy(cfg.command) THEN "missing" ELSE "built")
    ELSE (IF falsy(cfg.url) THEN "missing" ELSE "built")

\* The configuration resolver reads the entry.
ParseEntry ==
  /\ parse.pc = "idle"
  /\ LET d == IF parse.entry.kind = "dict" THEN dictDescriptor(parse.entry)
                                           ELSE legacyDescriptor(parse.entry)
     IN ParseStep([parse EXCEPT !.pc = d.status, !.cfg = d.cfg])

\* A client of the resolved server connects.
ConnectTransport ==
  /\ parse.pc = "resolved"
  /\ parse.connect = ""
  /\ ParseStep([parse EXCEPT !.connect = connectTransport(parse.cfg)])

\* ------------------------------------------------------------------------
\* indexServer: timeouts, backoff delays, clients and CLI artifacts (indexer.ts)
\* ------------------------------------------------------------------------

\* cfg.indexer and the server's descriptor, as far as the attempt loop reads
\* them; times are in milliseconds.
loopConfig(timeout, connectTimeout, maxRetriesCfg, initialRetryDelay, maxRetryDelay, generate) ==
  [timeout |-> timeout, connectTimeout |-> connectTimeout, maxRetries |-> maxRetriesCfg,
   initialRetryDelay |-> initialRetryDelay, maxRetryDelay |-> maxRetryDelay,
   generateCliArtifacts |-> generate]

NoLoopConfig == loopConfig(absentParam, 0, 0, 0, 0, FALSE)

NoLoopValue == [indexed |-> 0, failed |-> 0, error |-> ""]

\* The task before it is started. clients holds, for every McpClient the task
\* constructed, whether it is open; timeouts the timeout of every connect and
\* delays the delay of every backoff sleep, in order; cli is what became of
\* the CLI generation of the current attempt ("", "done", "failed", "threw")
\* and stored whether the tool loop of the current attempt ran to its end.
FreshAttemptLoop ==
  [pc |-> "idle", cfg |-> NoLoopConfig, attempt |-> 0, aborted |-> FALSE,
   clients |-> <<>>, timeouts |-> <<>>, delays |-> <<>>, cli |-> "", stored |-> FALSE,
   reason |-> "", value |-> NoLoopValue]

\* indexer.connectTimeout whatever the server's own timeout.
connectTimeoutOfIndexer(cfg) == cfg.connectTimeout

\* serverCfg.timeout ?? indexer.connectTimeout, the smaller of the two taken
\* instead.
connectTimeoutSmaller(cfg) ==
  IF cfg.timeout.type = "number" THEN Min(cfg.timeout.num, cfg.connectTimeout)
  ELSE cfg.connectTimeout

\* serverCfg.timeout ?? indexer.connectTimeout
connectTimeoutOf(cfg) ==
  IF cfg.timeout.type = "number" THEN cfg.timeout.num ELSE cfg.connectTimeout

\* Math.min(indexer.initialRetryDelay * 2 ** (attempt - 1), indexer.maxRetryDelay)
retryDelay(cfg, attempt) ==
  Min(cfg.initialRetryDelay * 2 ^ (attempt - 1), cfg.maxRetryDelay)

\* McpClient.disconnect on the client of the current attempt, left out.
disconnectClientNot(clientsOpen) == clientsOpen

\* McpClient.disconnect on the client of the current attempt: close() when
\* the SDK client is set.
disconnectClient(clientsOpen) ==
  IF clientsOpen = <<>> THEN clientsOpen
  ELSE [clientsOpen EXCEPT ![Len(clientsOpen)] = FALSE]

\* An exception leaves indexServer through the finally block.
loopRejects(a) ==
  [a EXCEPT !.pc = "rejected", !.clients = disconnectClient(a.clients)]

\* A return of indexServer through the finally block.
loopReturns(a, value) ==
  [a EXCEPT !.pc = "fulfilled", !.clients = disconnectClient(a.clients), !.value = value]

\* new McpClient(serverCfg) and client.connect({signal, timeout: connectTimeout})
\* up to the transport's connect.
loopConnect(a) ==
  [a EXCEPT !.pc = "connecting", !.clients = Append(@, TRUE),
            !.timeouts = Append(@, connectTimeoutOf(a.cfg)), !.cli = "", !.stored = FALSE]

\* The head of the for loop: the cancellation check, then the backoff sleep of
\* a retry or the connect of the first attempt; past the last attempt, the
\* return after the loop.
loopHead(a) ==
  IF ~(a.attempt < a.cfg.maxRetries + 1)
    THEN [a EXCEPT !.pc = "fulfilled", !.value = [indexed |-> 0, failed |-> 1, error |-> ""]]
  ELSE IF a.aborted THEN [a EXCEPT !.pc = "rejected"]
  ELSE IF a.attempt > 0
    THEN [a EXCEPT !.pc = "sleep", !.delays = Append(@, retryDelay(a.cfg, a.attempt))]
    ELSE loopConnect(a)

\* The catch block up to the end of its await of client.disconnect().
loopCatch(a, msg) ==
  [a EXCEPT !.pc = "catching", !.clients = disconnectClient(a.clients), !.reason = msg]

\* The catch block after its disconnect: the rethrow on cancellation, the
\* result of the last attempt, or on to the finally block.
loopCatchDone(a) ==
  IF a.aborted THEN loopRejects(a)
  ELSE IF a.attempt = (a.cfg.maxRetries + 1) - 1
    THEN loopReturns(a, [indexed |-> 0, failed |-> 1, error |-> a.reason])
    ELSE [a EXCEPT !.pc = "retry", !.clients = disconnectClient(a.clients)]

AttemptLoopStep(a) ==
  /\ attemptLoop' = a
  /\ UNCHANGED attemptLoopFrame

\* indexServer is called.
IndexServer ==
  /\ attemptLoop.pc = "idle"
  /\ \E aborted \in BOOLEAN :
       AttemptLoopStep(loopHead([attemptLoop EXCEPT !.aborted = aborted]))

\* The signal is aborted: a sleeping task rejects with the signal's reason.
LoopAbort ==
  /\ attemptLoop.pc \notin {"idle", "fulfilled", "rejected"}
  /\ ~attemptLoop.aborted
  /\ AttemptLoopStep(IF attemptLoop.pc = "sleep"
                       THEN [attemptLoop EXCEPT !.aborted = TRUE, !.pc = "rejected"]
                       ELSE [attemptLoop EXCEPT !.aborted = TRUE])

\* The backoff timer fires.
LoopTimerFires ==
  /\ attemptLoop.pc = "sleep"
  /\ AttemptLoopStep(loopConnect(attemptLoop))

LoopConnectOk ==
  /\ attemptLoop.pc = "connecting"
  /\ AttemptLoopStep([attemptLoop EXCEPT !.pc = "listing"])

LoopConnectFails ==
  /\ attemptLoop.pc = "connecting"
  /\ AttemptLoopStep(loopCatch(attemptLoop, "connect failed"))

\* listTools resolves: the CLI generation when it is enabled, else the tool loop.
LoopListOk ==
  /\ attemptLoop.pc = "listing"
  /\ AttemptLoopStep([attemptLoop EXCEPT
                        !.pc = IF attemptLoop.cfg.generateCliArtifacts
                                 THEN "generating" ELSE "tools"])

LoopListFails ==
  /\ attemptLoop.pc = "listing"
  /\ AttemptLoopStep(loopCatch(attemptLoop, "listTools failed"))

\* generateCliForServer resolves: the generator closed, with exit code 0 or not.
CliCloses(ok) ==
  /\ attemptLoop.pc = "generating"
  /\ AttemptLoopStep([attemptLoop EXCEPT !.pc = "tools",
                                         !.cli = IF ok THEN "done" ELSE "failed"])

\* generateCliForServer rejects: fs.mkdirSync of the output directory threw.
CliMkdirThrows ==
  /\ attemptLoop.pc = "generating"
  /\ AttemptLoopStep([loopCatch(attemptLoop, "mkdir failed") EXCEPT !.cli = "threw"])

\* The tool loop runs to its end: every tool was embedded and stored (or
\* counted as failed), and indexServer returns. An abort after the loop's last
\* cancellation check does not stop it.
LoopToolsDone ==
  /\ attemptLoop.pc = "tools"
  /\ AttemptLoopStep(loopReturns([attemptLoop EXCEPT !.stored = TRUE],
                                 [indexed |-> 1, failed |-> 0, error |-> ""]))

\* The tool loop finds the signal aborted.
LoopToolsAborted ==
  /\ attemptLoop.pc = "tools"
  /\ attemptLoop.aborted
  /\ AttemptLoopStep(loopCatch(attemptLoop, AbortReason))

LoopCatchDone ==
  /\ attemptLoop.pc = "catching"
  /\ AttemptLoopStep(loopCatchDone(attemptLoop))

\* The finally block's disconnect of a failed attempt is over: attempt++.
LoopRetry ==
  /\ attemptLoop.pc = "retry"
  /\ AttemptLoopStep(loopHead([attemptLoop EXCEPT !.attempt = @ + 1]))

\* ------------------------------------------------------------------------
\* Specifications
\* ------------------------------------------------------------------------

\* cfg.search as the configuration resolver defaults it (topK 5, minScore
\* 0.3), and no search under way.
SearchIdle ==
  /\ searchCfg = [topK |-> Whole(5), minScore |-> 60]
  /\ search = FreshSearch

\* A vector store no operation was called on.
StoreInitIdle ==
  /\ vectorStore = FreshVectorStore(FALSE)
  /\ storeOps = [k \in StoreOps |-> FreshOp]

\* The service not started, no reindex command, no status file.
LifecycleIdle ==
  /\ indexerAbort = 0
  /\ tokens = <<>>
  /\ jobs = <<>>
  /\ statusFile = NoStatusFile

\* One indexing run over two configured servers.
Init ==
  /\ servers = <<ServerA, ServerB>>
  /\ maxRetries \in 0..MaxRetries
  /\ runLimit = 1
  /\ runStatus = "idle"
  /\ runs = 0
  /\ signalAborted = FALSE
  /\ preAborted = FALSE
  /\ task = [s \in Servers |-> FreshTask]
  /\ store = {}
  /\ toolOwnerMap = [n \in ToolNames |-> NoOwner]
  /\ registryWarns = 0
  /\ runWarns = 0
  /\ result = NoResult
  /\ everyRunSucceeded = TRUE
  /\ callMode = "sdk"
  /\ call = [i \in Invocations |-> FreshCall]
  /\ clients = <<>>
  /\ SearchIdle
  /\ StoreInitIdle
  /\ LifecycleIdle
  /\ chunker = FreshChunker
  /\ parse = FreshParse
  /\ attemptLoop = FreshAttemptLoop

Next ==
  \/ \E aborted \in BOOLEAN : StartRun(aborted)
  \/ Abort
  \/ Collect
  \/ \E s \in Servers : ConnectOk(s)
  \/ \E s \in Servers : ConnectFail(s)
  \/ \E s \in Servers : ListOk(s)
  \/ \E s \in Servers : ListFail(s)
  \/ \E s \in Servers : CatchDone(s)
  \/ \E s \in Servers : Retry(s)
  \/ \E s \in Servers : TimerFire(s)
  \/ \E s \in Servers : EmbedOk(s)
  \/ \E s \in Servers : \E err \in EmbedErrors : EmbedFail(s, err)
  \/ \E s \in Servers : StoreFail(s)
  \/ \E s \in Servers : UpsertDelete(s)
  \/ \E s \in Servers : UpsertAdd(s)
  \/ \E s \in Servers : DeleteToolChunks(s)
  \/ \E s \in Servers : AddToolEntries(s)

Spec == Init /\ [][Next]_vars

\* One configured server, re-indexed: the runs of a reindex command, or of the
\* service across restarts, over the same store and registry.
InitReindex ==
  /\ servers = <<ServerA>>
  /\ maxRetries \in 0..MaxRetries
  /\ runLimit = MaxRuns
  /\ runStatus = "idle"
  /\ runs = 0
  /\ signalAborted = FALSE
  /\ preAborted = FALSE
  /\ task = [s \in Servers |-> FreshTask]
  /\ store = {}
  /\ toolOwnerMap = [n \in ToolNames |-> NoOwner]
  /\ registryWarns = 0
  /\ runWarns = 0
  /\ result = NoResult
  /\ everyRunSucceeded = TRUE
  /\ callMode = "sdk"
  /\ call = [i \in Invocations |-> FreshCall]
  /\ clients = <<>>
  /\ SearchIdle
  /\ StoreInitIdle
  /\ LifecycleIdle
  /\ chunker = FreshChunker
  /\ parse = FreshParse
  /\ attemptLoop = FreshAttemptLoop

SpecReindex == InitReindex /\ [][Next]_vars

\* The tool names of the servers s and s::t.
IdToolNames == {<<"t", ":", ":", "u">>, <<"w">>, <<"u">>}

\* One indexing run over the servers s and s::t.
InitIds ==
  /\ servers = <<ServerS, ServerST>>
  /\ maxRetries \in 0..MaxRetries
  /\ runLimit = 1
  /\ runStatus = "idle"
  /\ runs = 0
  /\ signalAborted = FALSE
  /\ preAborted = FALSE
  /\ task = [s \in Servers |-> FreshTask]
  /\ store = {}
  /\ toolOwnerMap = [n \in IdToolNames |-> NoOwner]
  /\ registryWarns = 0
  /\ runWarns = 0
  /\ result = NoResult
  /\ everyRunSucceeded = TRUE
  /\ callMode = "sdk"
  /\ call = [i \in Invocations |-> FreshCall]
  /\ clients = <<>>
  /\ SearchIdle
  /\ StoreInitIdle
  /\ LifecycleIdle
  /\ chunker = FreshChunker
  /\ parse = FreshParse
  /\ attemptLoop = FreshAttemptLoop

SpecIds == InitIds /\ [][Next]_vars

\* The server v, re-indexed: its list of tools may differ from run to run.
InitStale ==
  /\ servers = <<ServerV>>
  /\ maxRetries \in 0..MaxRetries
  /\ runLimit = MaxRuns
  /\ runStatus = "idle"
  /\ runs = 0
  /\ signalAborted = FALSE
  /\ preAborted = FALSE
  /\ task = [s \in Servers |-> FreshTask]
  /\ store = {}
  /\ toolOwnerMap = [n \in ToolNames |-> NoOwner]
  /\ registryWarns = 0
  /\ runWarns = 0
  /\ result = NoResult
  /\ everyRunSucceeded = TRUE
  /\ callMode = "sdk"
  /\ call = [i \in Invocations |-> FreshCall]
  /\ clients = <<>>
  /\ SearchIdle
  /\ StoreInitIdle
  /\ LifecycleIdle
  /\ chunker = FreshChunker
  /\ parse = FreshParse
  /\ attemptLoop = FreshAttemptLoop

SpecStale == InitStale /\ [][Next]_vars

\* The registries an indexing of the configured servers can leave behind.
RegistryStates ==
  {map \in [ToolNames -> {NoOwner} \cup {servers[s].name : s \in Servers}] :
     \A n \in ToolNames :
       map[n] # NoOwner =>
         \E s \in Servers :
           /\ servers[s].name = map[n]
           /\ \E k \in 1..Len(serverToolNames(servers[s])) : serverToolNames(servers[s])[k] = n}

InitCall ==
  /\ servers = <<ServerA, ServerB>>
  /\ maxRetries = 0
  /\ runLimit = 0
  /\ runStatus = "idle"
  /\ runs = 0
  /\ signalAborted = FALSE
  /\ preAborted = FALSE
  /\ task = [s \in Servers |-> FreshTask]
  /\ store = {}
  /\ toolOwnerMap \in RegistryStates
  /\ registryWarns = 0
  /\ runWarns = 0
  /\ result = NoResult
  /\ everyRunSucceeded = TRUE
  /\ callMode \in {"sdk", "mcporter-cli"}
  /\ call = [i \in Invocations |-> FreshCall]
  /\ clients = <<>>
  /\ SearchIdle
  /\ StoreInitIdle
  /\ LifecycleIdle
  /\ chunker = FreshChunker
  /\ parse = FreshParse
  /\ attemptLoop = FreshAttemptLoop

NextCall ==
  \/ \E i \in Invocations : \E params \in ParamsInputs : Execute(i, params)
  \/ \E i \in Invocations : CallConnectOk(i)
  \/ \E i \in Invocations : CallConnectFail(i)
  \/ \E i \in Invocations : \E isError \in BOOLEAN : CallToolReturns(i, isError)
  \/ \E i \in Invocations : CallClosed(i)
  \/ \E i \in Invocations : \E isError \in BOOLEAN : CliReturns(i, isError)
  \/ \E i \in Invocations : CliThrows(i)

SpecCall == InitCall /\ [][NextCall]_vars

\* No indexer run and no registry entry.
IndexerIdle ==
  /\ servers = <<ServerA, ServerB>>
  /\ maxRetries = 0
  /\ runLimit = 0
  /\ runStatus = "idle"
  /\ runs = 0
  /\ signalAborted = FALSE
  /\ preAborted = FALSE
  /\ task = [s \in Servers |-> FreshTask]
  /\ store = {}
  /\ toolOwnerMap = [n \in ToolNames |-> NoOwner]
  /\ registryWarns = 0
  /\ runWarns = 0
  /\ result = NoResult
  /\ everyRunSucceeded = TRUE

\* No invocation of mcp_call.
CallIdle ==
  /\ callMode = "sdk"
  /\ call = [i \in Invocations |-> FreshCall]
  /\ clients = <<>>

\* The query and limit arguments of the searches of the model: a missing, a
\* blank and a proper query; no limit, a limit that is not a number, and the
\* limits -1, 0.5, 1, 1.5, 2.5, 20, 20.5 and 25.
SearchInputs ==
  {searchParams(query, limit) :
     query \in {absentParam, stringParam(<<" ">>), stringParam(<<"q">>)},
     limit \in {absentParam, stringParam(<<"2">>)}
              \cup {numberParam(x) : x \in {Whole(-1), 1, Whole(1), 3, 5,
                                             Whole(20), Whole(20) + 1, Whole(25)}}}

\* The rows searchTools may return: chunks of the tools r and w of server a
\* and of the tool r of server b, with scores 0.845, 0.85 and 0.92 (all of
\* them pass minScore).
SearchRows ==
  {searchResult(key[1], key[2], score) :
     key \in {<<ServerA.name, <<"r">> >>, <<ServerA.name, <<"w">> >>, <<ServerB.name, <<"r">> >>},
     score \in {169, 170, 184}}

RowLists == UNION {[1..n -> SearchRows] : n \in 0..MaxRows}

\* One search, under a configured topK of 1 or 5.
InitSearch ==
  /\ IndexerIdle
  /\ CallIdle
  /\ searchCfg \in {[topK |-> Whole(k), minScore |-> 60] : k \in {1, 5}}
  /\ search = FreshSearch
  /\ StoreInitIdle
  /\ LifecycleIdle
  /\ chunker = FreshChunker
  /\ parse = FreshParse
  /\ attemptLoop = FreshAttemptLoop

NextSearch ==
  \/ \E params \in SearchInputs : Search(params)
  \/ SearchEmbedOk
  \/ SearchEmbedFail
  \/ \E rawResults \in RowLists : SearchReturns(rawResults)
  \/ SearchFails

SpecSearch == InitSearch /\ [][NextSearch]_vars

\* Operations on one vector store, over a database with or without the
\* mcp_tools table.
InitStore ==
  /\ IndexerIdle
  /\ CallIdle
  /\ SearchIdle
  /\ vectorStore \in {FreshVectorStore(tableExists) : tableExists \in BOOLEAN}
  /\ storeOps = [k \in StoreOps |-> FreshOp]
  /\ LifecycleIdle
  /\ chunker = FreshChunker
  /\ parse = FreshParse
  /\ attemptLoop = FreshAttemptLoop

NextStore ==
  \/ \E k \in StoreOps : \E op \in StoreOpNames : OpCall(k, op)
  \/ \E k \in StoreOps : OpResume(k)
  \/ \E k \in StoreOps : OpTable(k)
  \/ InitListed
  \/ InitOpened
  \/ InitDims
  \/ InitCreated
  \/ InitSentinelDeleted
  \/ InitFails

SpecStore == InitStore /\ [][NextStore]_vars

\* The arguments of reindex --server: none, a configured server, a name that
\* is not configured.
ReindexTargets == {<<>>, ServerA.name, ServerB.name, <<"z">>}

JobIds == 1..MaxJobs

\* The service and the reindex command over two configured servers.
InitLifecycle ==
  /\ IndexerIdle
  /\ CallIdle
  /\ SearchIdle
  /\ StoreInitIdle
  /\ LifecycleIdle
  /\ chunker = FreshChunker
  /\ parse = FreshParse
  /\ attemptLoop = FreshAttemptLoop

NextLifecycle ==
  \/ ServiceStart
  \/ ServiceStop
  \/ \E target \in ReindexTargets : Reindex(target)
  \/ \E j \in JobIds : Sigint(j)
  \/ \E j \in JobIds : RunResolves(j)
  \/ \E j \in JobIds : RunResolvesUnwritten(j)

SpecLifecycle == InitLifecycle /\ [][NextLifecycle]_vars

\* The texts given to chunkText: every text of x and newline up to MaxText
\* characters, texts of sentences, and a short line followed by a long one.
ChunkTexts ==
  UNION {[1..n -> {"x", NL}] : n \in 0..MaxText}
  \cup {<<"x", "x", "x", "x", ".", " ", "x", "x", "x", "x">>,
        <<"x", "x", ".", " ", "x", "x", "x", ".", " ", "x", "x">>,
        <<"x", NL, "x", "x", "x", "x", "x", "x", "x", "x">>}

\* The tool names: the empty name and r.
ChunkNames == {<<>>, <<"r">>}

\* The (maxChunkChars, overlapChars) the configuration resolver accepts, of
\* which the model takes: chunking disabled; maxChunkChars 7 or 8 with no
\* overlap, an overlap of 1, and an overlap of 8.
ChunkConfigs ==
  {[maxChunkChars |-> m, overlapChars |-> o] : m \in {0, 7, 8}, o \in {0, 1, 8}}

\* One call of chunkText.
InitChunk ==
  /\ IndexerIdle
  /\ CallIdle
  /\ SearchIdle
  /\ StoreInitIdle
  /\ LifecycleIdle
  /\ chunker = FreshChunker
  /\ parse = FreshParse
  /\ attemptLoop = FreshAttemptLoop

NextChunk ==
  \/ /\ chunker.pc = "idle"
     /\ \E text \in ChunkTexts : \E toolNamePrefix \in ChunkNames : \E config \in ChunkConfigs :
          ChunkText(text, toolNamePrefix, config)
  \/ MergeSegment
  \/ HardSplit
  \/ HardSplitDone
  \/ MergeDone

SpecChunk == InitChunk /\ [][NextChunk]_vars

\* The servers maps of the model: the keys a and b in either order; the entry
\* of a is enabled, disabled, or enabled without command and url, the entry
\* of b enabled or disabled.
RawEntries(name) ==
  {rawServer(name, d, TRUE) : d \in BOOLEAN}
    \cup (IF name = <<"a">> THEN {rawServer(name, FALSE, FALSE)} ELSE {})

RawDicts ==
  {<<>>}
    \cup {<<e>> : e \in RawEntries(<<"a">>) \cup RawEntries(<<"b">>)}
    \cup {<<e, f>> : e \in RawEntries(<<"a">>), f \in RawEntries(<<"b">>)}
    \cup {<<f, e>> : e \in RawEntries(<<"a">>), f \in RawEntries(<<"b">>)}

\* The legacy servers arrays: absent (NoLegacy), empty, one or two entries (a
\* name may repeat), an invalid entry.
LegacyArrays ==
  {<<>>, <<rawServer(<<"a">>, FALSE, TRUE)>>, <<rawServer(<<"c">>, FALSE, TRUE)>>,
   <<rawServer(<<"c">>, FALSE, TRUE), rawServer(<<"c">>, FALSE, TRUE)>>,
   <<rawServer(<<"c">>, FALSE, FALSE)>>}

\* The inputs of search.topK, in halves: absent, 0.5, 7, 25.
TopKInputs == {absentParam, numberParam(1), numberParam(Whole(7)), numberParam(Whole(25))}

\* The inputs of the indexer's numeric settings, in halves: absent, -1, 0.5, 7.
IndexerInputs == {absentParam, numberParam(-Whole(1)), numberParam(1), numberParam(Whole(7))}

\* The raw configurations: the indexer's numeric settings take the same input.
RawConfigs ==
  {[file |-> [readable |-> readable, dict |-> IF readable THEN fileDict ELSE <<>>],
    hasInline |-> hasInline, mcpServers |-> IF hasInline THEN inlineDict ELSE <<>>,
    hasLegacy |-> hasLegacy, servers |-> IF hasLegacy THEN legacy ELSE <<>>,
    topK |-> topK,
    indexer |-> [connectTimeout |-> n, maxRetries |-> n, initialRetryDelay |-> n,
                 maxRetryDelay |-> n, maxChunkChars |-> n, overlapChars |-> n]] :
   readable \in BOOLEAN, fileDict \in RawDicts, hasInline \in BOOLEAN, inlineDict \in RawDicts,
   hasLegacy \in BOOLEAN, legacy \in LegacyArrays, topK \in TopKInputs,
   n \in IndexerInputs}

InitConfig ==
  /\ IndexerIdle
  /\ CallIdle
  /\ SearchIdle
  /\ StoreInitIdle
  /\ LifecycleIdle
  /\ chunker = FreshChunker
  /\ attemptLoop = FreshAttemptLoop
  /\ parse \in {[FreshParse EXCEPT !.raw = raw] : raw \in RawConfigs}

NextConfig ==
  \/ ParseConfig
  \/ ResolveRawMcpServers

SpecConfig == InitConfig /\ [][NextConfig]_vars

\* The entries of the model: in a servers map, with or without command, url,
\* serverUrl (an empty string included) and type (a transport, or another
\* string); in the legacy array, with or without transport, command and url.
RawTransportEntries ==
  {dictEntry(disabled, command, url, serverUrl, type) :
     disabled \in BOOLEAN,
     command \in {noField, strField(""), strField("c")},
     url \in {noField, strField(""), strField("u")},
     serverUrl \in {noField, strField("v")},
     type \in {noField, strField("stdio"), strField("sse"), strField("http"), strField("ws")}}
  \cup
  {legacyEntry(transport, command, url) :
     transport \in {noField, strField("stdio"), strField("sse"), strField("http"), strField("ws")},
     command \in {noField, strField(""), strField("c")},
     url \in {noField, strField(""), strField("u")}}

\* One entry of the configuration, parsed and then connected to.
InitTransport ==
  /\ IndexerIdle
  /\ CallIdle
  /\ SearchIdle
  /\ StoreInitIdle
  /\ LifecycleIdle
  /\ chunker = FreshChunker
  /\ attemptLoop = FreshAttemptLoop
  /\ parse \in {[pc |-> "idle", entry |-> sv, cfg |-> NoDescriptor, connect |-> ""] :
                  sv \in RawTransportEntries}

NextTransport ==
  \/ ParseEntry
  \/ ConnectTransport

SpecTransport == InitTransport /\ [][NextTransport]_vars

\* The descriptors and indexer settings of the model, in milliseconds: a
\* server without timeout, with one below and with one above connectTimeout;
\* no retry, one, three; an initial delay that is negative, zero, below and
\* above maxRetryDelay.
LoopConfigs ==
  {loopConfig(timeout, 5, retries, initialRetryDelay, 5, generate) :
     timeout \in {absentParam, numberParam(3), numberParam(9)},
     retries \in {0, 1, 3},
     initialRetryDelay \in {-1, 0, 2, 7},
     generate \in BOOLEAN}

InitAttempts ==
  /\ IndexerIdle
  /\ CallIdle
  /\ SearchIdle
  /\ StoreInitIdle
  /\ LifecycleIdle
  /\ chunker = FreshChunker
  /\ parse = FreshParse
  /\ attemptLoop \in {[FreshAttemptLoop EXCEPT !.cfg = cfg] : cfg \in LoopConfigs}

NextAttempts ==
  \/ IndexServer
  \/ LoopAbort
  \/ LoopTimerFires
  \/ LoopConnectOk
  \/ LoopConnectFails
  \/ LoopListOk
  \/ LoopListFails
  \/ \E ok \in BOOLEAN : CliCloses(ok)
  \/ CliMkdirThrows
  \/ LoopToolsDone
  \/ LoopToolsAborted
  \/ LoopCatchDone
  \/ LoopRetry

SpecAttempts == InitAttempts /\ [][NextAttempts]_vars

\* ------------------------------------------------------------------------
\* Claims
\* ------------------------------------------------------------------------

ToolLoopPcs == {"embed1", "embedN", "upsertDelete", "upsertAdd", "deleting", "adding"}

\* C1: runIndexer never rejects; whatever the outcomes of the server tasks
\* (returned, gave up, rejected), it resolves with one servers[] entry per
\* configured server, entry s holding the counts of task s alone (those the
\* task returned, or 0 indexed and 1 failed for a rejected task), and with
\* indexed and failed equal to the sums over the entries.
C1_RunResolvesWithOneEntryPerServer ==
  /\ runStatus # "rejected"
  /\ runStatus = "resolved" =>
       /\ Len(result.servers) = Len(servers)
       /\ \A s \in Servers :
            /\ Settled(task[s])
            /\ task[s].pc = "fulfilled" =>
                 /\ result.servers[s].indexed = task[s].value.indexed
                 /\ result.servers[s].failed = task[s].value.failed
            /\ task[s].pc = "rejected" =>
                 /\ result.servers[s].indexed = 0
                 /\ result.servers[s].failed = 1
       /\ result.indexed = sumOver(result.servers, 1, "indexed")
       /\ result.failed = sumOver(result.servers, 1, "failed")

\* C1 witness: a resolved run in which one task was rejected and another
\* returned with tools indexed.
C1_Witness ==
  /\ runStatus = "resolved"
  /\ \E s1, s2 \in Servers :
       /\ task[s1].pc = "rejected"
       /\ Returned(task[s2]) /\ task[s2].value.indexed >= 1
       /\ result.indexed = task[s2].value.indexed

\* The attempts of a settled task that failed: those that led to a retry and
\* the last one when the task gave up.
failedAttempts(t) == t.attempt + (IF GaveUp(t) THEN 1 ELSE 0)

C3_RowsAreTheCurrentChunkSet ==
  (runStatus = "resolved" /\ everyRunSucceeded) =>
    \A s \in Servers :
        \A k \in 1..Len(task[s].tools) :
          LET tool == task[s].tools[k]
              chunks == toolChunks(tool)
          IN {r \in store : r.server_name = servers[s].name /\ r.tool_name = tool.name}
             = {toolEntry(servers[s].name, tool, chunks, i) : i \in 0..(Len(chunks) - 1)}

\* C4 as claimed: all rows of one (server_name, tool_name) carry the same
\* description and the same parameters_json.
C4_RowsOfAToolAgree ==
  \A r1, r2 \in store :
    (r1.server_name = r2.server_name /\ r1.tool_name = r2.tool_name) =>
      (r1.description = r2.description /\ r1.parameters_json = r2.parameters_json)

\* C5: once the signal of a run is aborted no task calls connect or starts a
\* backoff sleep, none goes to a retry, and none gives up with an error entry
\* (a failed attempt rejects with the abort reason); no task is asleep while
\* the signal is aborted.
C5_NoAttemptAfterAbort ==
  /\ [](signalAborted => \A s \in Servers : task[s].pc # "sleep")
  /\ [][(runStatus = "running" /\ signalAborted) =>
          \A s \in Servers :
            /\ task'[s].connects = task[s].connects
            /\ task'[s].sleeps = task[s].sleeps
            /\ task'[s].pc \in {"catching", "retry", "sleep", "connecting"} =>
                 task'[s].pc = task[s].pc
            /\ (ConnectFail(s) \/ ListFail(s) \/ CatchDone(s)) =>
                 (task'[s].pc = "rejected" /\ task'[s].reason = AbortReason)
            /\ (GaveUp(task'[s]) => GaveUp(task[s]))]_vars

\* C5 witness: a task rejected with the abort reason after it started its
\* backoff sleep and before the connect of the retry.
C5_Witness ==
  \E s \in Servers :
    /\ signalAborted /\ ~preAborted
    /\ task[s].pc = "rejected" /\ task[s].reason = AbortReason
    /\ task[s].sleeps = 1 /\ task[s].connects = 1

\* C6: in a run called with an aborted signal every task is rejected without
\* a connect or a sleep and without reaching an embedding or store call, the
\* store and the registry stay as they were, and the run resolves with
\* indexed = 0 and failed = the number of configured servers (at least 1).
C6_PreAbortedRunDoesNothing ==
  (runStatus # "idle" /\ preAborted) =>
    /\ \A s \in Servers :
         /\ task[s].pc = "rejected"
         /\ task[s].connects = 0
         /\ task[s].sleeps = 0
         /\ ~task[s].clientOpen
    /\ store = {}
    /\ \A n \in ToolNames : toolOwnerMap[n] = NoOwner
    /\ runStatus = "resolved" =>
         /\ result.indexed = 0
         /\ result.failed = Len(servers)
         /\ result.failed >= 1

\* C6 witness: a resolved run that was called with an aborted signal.
C6_Witness == runStatus = "resolved" /\ preAborted /\ result.failed = 2

\* A step in which an embedding or store call of task s rejects.
ToolCallFails(s) == (\E err \in EmbedErrors : EmbedFail(s, err)) \/ StoreFail(s)

\* C7: in a run that is not aborted, a rejected embedding or store call of a
\* tool adds one to failed, leaves indexed and the registry alone and goes on
\* to the next tool (or returns after the last); during the tool loop
\* indexed + failed is the number of tools done, and a task that returns has
\* indexed + failed = the number of tools listed.
C7_ToolFailureIsCountedAndSkipped ==
  /\ [](\A s \in Servers :
          /\ task[s].pc \in ToolLoopPcs =>
               task[s].indexed + task[s].failed = task[s].idx - 1
          /\ Returned(task[s]) =>
               task[s].value.indexed + task[s].value.failed = Len(task[s].tools))
  /\ [][\A s \in Servers :
          (ToolCallFails(s) /\ ~signalAborted) =>
            /\ toolOwnerMap' = toolOwnerMap
            /\ registryWarns' = registryWarns
            /\ IF task[s].idx = Len(task[s].tools)
                 THEN /\ Returned(task'[s])
                      /\ task'[s].value.failed = task[s].failed + 1
                      /\ task'[s].value.indexed = task[s].indexed
                 ELSE /\ task'[s].pc \in {"embed1", "deleting"}
                      /\ task'[s].idx = task[s].idx + 1
                      /\ task'[s].failed = task[s].failed + 1
                      /\ task'[s].indexed = task[s].indexed]_vars

\* C7 witness: a task that returned with its first tool failed and its
\* second tool indexed.
C7_Witness ==
  \E s \in Servers :
    /\ ~signalAborted
    /\ Returned(task[s])
    /\ Len(task[s].tools) = 2
    /\ task[s].value.failed = 1 /\ task[s].value.indexed = 1
    /\ toolOwnerMap[task[s].tools[1].name] = NoOwner
    /\ toolOwnerMap[task[s].tools[2].name] = servers[s].name

\* C8 as claimed: in a run that is not aborted, when an embedding request
\* fails with "not reachable" and the task has retries left, the attempt is
\* given up for a retry of the server (its catch block runs).
C8_UnreachableEmbeddingIsRetried ==
  [][\A s \in Servers :
       (EmbedFail(s, "not reachable") /\ ~signalAborted /\ task[s].attempt < maxRetries)
         => task'[s].pc = "catching"]_vars

ValidationCards == {"missing_tool_name", "invalid_json", "unknown_tool"}

\* The invocation got past the checks of its input and found a server.
PassedValidation(inv) ==
  \/ inv.pc \in {"connecting", "calling", "closing", "cli"}
  \/ inv.pc = "done" /\ inv.card.kind \notin ValidationCards

opsOf(cl) == [k \in 1..Len(cl.log) |-> cl.log[k].op]

\* C9: with the SDK backend, an invocation of mcp_call that got past
\* validation has constructed exactly one client, no other invocation calls
\* that client, the calls on it are connect, then callTool if the connect
\* succeeded, then one disconnect (also after a failed connect and after a
\* failed tool call), and the invocation resolves with a card and never
\* rejects; every client belongs to one invocation.
C9_OneClientPerCallAlwaysDisconnected ==
  /\ \A c \in 1..Len(clients) :
       /\ clients[c].by \in Invocations
       /\ call[clients[c].by].client = c
       /\ \A k \in 1..Len(clients[c].log) : clients[c].log[k].by = clients[c].by
  /\ \A i \in Invocations :
       /\ call[i].outcome # "rejected"
       /\ (callMode = "sdk" /\ PassedValidation(call[i])) =>
            /\ Cardinality({c \in 1..Len(clients) : clients[c].by = i}) = 1
            /\ call[i].client \in 1..Len(clients)
            /\ LET cl == clients[call[i].client]
               IN /\ call[i].pc = "connecting" => opsOf(cl) = <<"connect">>
                  /\ call[i].pc = "calling" => opsOf(cl) = <<"connect", "callTool">>
                  /\ call[i].pc \in {"closing", "done"} =>
                       opsOf(cl) \in {<<"connect", "disconnect">>,
                                      <<"connect", "callTool", "disconnect">>}
                  /\ call[i].pc = "done" =>
                       /\ ~cl.open
                       /\ call[i].outcome = "resolved"
                       /\ call[i].card.kind \in {"result", "error"}
                       /\ call[i].card.kind = "error" <=> opsOf(cl) = <<"connect", "disconnect">>

\* C9 witness: two invocations that overlapped, one whose connect failed and
\* one whose tool call returned, both resolved, each with its own client
\* disconnected once.
C9_Witness ==
  \E i, j \in Invocations :
    /\ callMode = "sdk"
    /\ call[i].pc = "done" /\ call[i].card.kind = "error"
    /\ call[j].pc = "done" /\ call[j].card.kind = "result"
    /\ call[i].client = 2 /\ call[j].client = 1
    /\ opsOf(clients[2]) = <<"connect", "disconnect">>
    /\ opsOf(clients[1]) = <<"connect", "callTool", "disconnect">>

\* The arguments whose tool_name is missing, not a string or blank.
NameMissing(params) ==
  params.tool_name \in {JsUndefined, JsNumber, JsString(<<>>), JsString(<<" ">>)}

\* The arguments whose params_json is a text that is not a JSON object.
NotAnObject(params) ==
  params.params_json \in {JsString(TextArray), JsString(TextNull), JsString(TextMalformed),
                          JsString(TextTrailing), JsString(TextNumber)}

\* The arguments whose tool name has no binding in the registry.
Unbound(params) ==
  LET name == IF params.tool_name = JsString(<<" ", "r", " ">>) THEN <<"r">>
              ELSE params.tool_name.str
  IN name \notin ToolNames \/ toolOwnerMap[name] = NoOwner

\* C10: mcp_call checks its input in order and stops at the first failure:
\* a missing, non-string or blank tool_name gives the missing_tool_name card;
\* else a params_json that is not a JSON object (malformed, an array, null)
\* gives the invalid_json card; else an unbound tool name gives the
\* unknown_tool card. In these cases the invocation resolves at once, no
\* client is constructed for it and it logs no warning; other input is not
\* turned away.
C10_ValidationOrderWithoutSideEffects ==
  \A i \in Invocations :
    call[i].pc # "idle" =>
      LET p == call[i].params
          turnedAway == NameMissing(p) \/ NotAnObject(p) \/ Unbound(p)
      IN /\ turnedAway =>
              /\ call[i].pc = "done" /\ call[i].outcome = "resolved"
              /\ call[i].card.kind = IF NameMissing(p) THEN "missing_tool_name"
                                     ELSE IF NotAnObject(p) THEN "invalid_json"
                                     ELSE "unknown_tool"
              /\ call[i].client = 0
              /\ \A c \in 1..Len(clients) : clients[c].by # i
              /\ call[i].warns = 0
         /\ ~turnedAway => PassedValidation(call[i])

\* C10 witness: an invocation whose params_json is null and whose tool name
\* is unbound got the invalid_json card, and one whose tool_name is not a
\* string and whose params_json is an array got the missing_tool_name card.
C10_Witness ==
  \E i, j \in Invocations :
    /\ call[i].params = callParams(JsString(<<"z">>), JsString(TextNull))
    /\ call[i].card.kind = "invalid_json"
    /\ call[j].params = callParams(JsNumber, JsString(TextArray))
    /\ call[j].card.kind = "missing_tool_name"

\* A step in which task s calls registry.registerToolOwner for its tool.
Registers(s) == UpsertAdd(s) \/ AddToolEntries(s)

\* C11: resolveServer(t) is nothing before any registerToolOwner(t, .) call;
\* a call registerToolOwner(t, server) makes resolveServer(t) the descriptor
\* of that server, leaves every other name as it was, and emits one warning
\* exactly when t was bound before the call; no other step changes what
\* resolveServer returns. Calls of two concurrently indexed servers that
\* expose the same name interleave.
C11_LastWriterWinsWithWarning ==
  /\ (\A n \in ToolNames : resolveServer(toolOwnerMap, n) = NoOwner)
  /\ [][/\ \A s \in Servers :
             Registers(s) =>
               LET name == task[s].tools[task[s].idx].name
               IN /\ resolveServer(toolOwnerMap', name) = servers[s]
                  /\ \A n \in ToolNames \ {name} :
                       resolveServer(toolOwnerMap', n) = resolveServer(toolOwnerMap, n)
                  /\ registryWarns' - registryWarns =
                       IF resolveServer(toolOwnerMap, name) # NoOwner THEN 1 ELSE 0
        /\ (~ \E s \in Servers : Registers(s)) =>
             \A n \in ToolNames :
               resolveServer(toolOwnerMap', n) = resolveServer(toolOwnerMap, n)]_vars

\* C11 witness: both servers registered the tool name r, the second call
\* overwrote the first with a warning, and r resolves to the later server.
C11_Witness ==
  /\ runStatus = "resolved"
  /\ \A s \in Servers : Returned(task[s]) /\ task[s].value.failed = 0
  /\ registryWarns = 1
  /\ resolveServer(toolOwnerMap, <<"r">>) = ServerA
  /\ resolveServer(toolOwnerMap, <<"w">>) = ServerA

\* The search returned with the ranking of the rows the store gave it.
Ranked == search.pc = "done" /\ search.kind \in {"found", "none_found"}

rowsOfCard(card) ==
  {k \in 1..Len(search.rawResults) :
     /\ search.rawResults[k].server_name = card.server_name
     /\ search.rawResults[k].tool_name = card.tool_name}

\* C12: whatever rows the store returned, no two cards of mcp_search name the
\* same (server_name, tool_name); every card names a pair that occurs among
\* the rows and shows the highest score of the rows of its pair; the cards
\* are in order of non-increasing score; there are at most limit of them, and
\* details.count is their number.
C12_CardsAreDedupedRankedAndTruncated ==
  Ranked =>
    LET cards == search.cards
    IN /\ \A i, j \in 1..Len(cards) :
            i # j => ~ (/\ cards[i].server_name = cards[j].server_name
                        /\ cards[i].tool_name = cards[j].tool_name)
       /\ \A i \in 1..Len(cards) :
            /\ rowsOfCard(cards[i]) # {}
            /\ \E k \in rowsOfCard(cards[i]) :
                 /\ \A m \in rowsOfCard(cards[i]) :
                      search.rawResults[m].score <= search.rawResults[k].score
                 /\ cards[i].score = (search.rawResults[k].score + 1) \div 2
                 /\ search.results[i].score = search.rawResults[k].score
       /\ \A i, j \in 1..Len(cards) :
            i < j => /\ search.results[i].score >= search.results[j].score
                     /\ cards[i].score >= cards[j].score
       /\ 2 * Len(cards) <= search.limit
       /\ search.count = Len(cards)

\* Two chunks of a.r, the later one with the higher score, and a row of b.r;
\* limit 1 leaves the one card of a.r with 92%.
C12_Witness ==
  /\ Ranked
  /\ search.params.limit = numberParam(Whole(1))
  /\ search.rawResults = << searchResult(ServerA.name, <<"r">>, 169),
                            searchResult(ServerA.name, <<"r">>, 184),
                            searchResult(ServerB.name, <<"r">>, 170) >>
  /\ search.cards = << [tool_name |-> <<"r">>, server_name |-> ServerA.name, score |-> 92] >>
  /\ search.count = 1

\* The limit of the claim, in halves: the numeric argument, else the
\* configured topK, brought into [1, 20].
effectiveLimit ==
  LET raw == IF search.params.limit.type = "number"
               THEN search.params.limit.num ELSE searchCfg.topK
  IN IF raw < 2 THEN 2 ELSE IF raw > 40 THEN 40 ELSE raw

C14_InitOnceAndCompleteBeforeUse ==
  /\ vectorStore.initCalls <= 1
  /\ \A k \in StoreOps :
       storeOps[k].pc = "done" => storeOps[k].initialized /\ ~ storeOps[k].sentinel

liveServiceTokens(ts) == {i \in 1..Len(ts) : ts[i].by = "service" /\ ~ ts[i].aborted}

\* C15: whatever the sequence of start and stop calls of the service, the
\* only token of the service that is not aborted is the one it holds; start
\* aborts the token held before and holds a new, un-aborted one; stop aborts
\* the held token and holds none, so that after stop every token the service
\* created is aborted.
C15_OneLiveServiceToken ==
  /\ [](liveServiceTokens(tokens) \subseteq {indexerAbort})
  /\ [][/\ ServiceStart =>
             /\ indexerAbort # 0 => tokens'[indexerAbort].aborted
             /\ Len(tokens') = Len(tokens) + 1
             /\ indexerAbort' = Len(tokens')
             /\ liveServiceTokens(tokens') = {indexerAbort'}
        /\ ServiceStop =>
             /\ indexerAbort' = 0
             /\ liveServiceTokens(tokens') = {}]_vars

\* The service was started, restarted while its first run was under way, and
\* stopped: both tokens are aborted and none is held.
C15_Witness ==
  /\ indexerAbort = 0
  /\ tokens = << [by |-> "service", aborted |-> TRUE], [by |-> "service", aborted |-> TRUE] >>
  /\ Len(jobs) = 2
  /\ \A j \in 1..Len(jobs) : jobs[j].kind = "start" /\ jobs[j].pc = "running"

\* The entries of a status file under a server name.
fileEntries(file, name) ==
  {file.servers[k] : k \in {i \in 1..Len(file.servers) : jsonName(file.servers[i]) = name}}

\* C16: when a run's status is written, then after a reindex --server the
\* file holds for every other configured server the entries it held before
\* and for the re-indexed server the entry of this run, and after a full run
\* the file's servers are the entries of this run.
C16_StatusFileMergesBySingleServer ==
  [][\A j \in JobIds :
       (j <= Len(jobs) /\ jobs[j].pc = "running" /\ jobs'[j].pc = "written") =>
         LET run == {entryToJson(jobs'[j].result.servers[k]) :
                       k \in 1..Len(jobs'[j].result.servers)}
         IN IF jobs[j].target # <<>>
              THEN /\ \A s \in Servers :
                        servers[s].name # jobs[j].target =>
                          fileEntries(statusFile', servers[s].name)
                            = fileEntries(statusFile, servers[s].name)
                   /\ fileEntries(statusFile', jobs[j].target) = run
              ELSE {statusFile'.servers[k] : k \in 1..Len(statusFile'.servers)} = run]_vars

\* C17: chunkText terminates, whatever the text, the tool name and the
\* accepted maxChunkChars and overlapChars: in particular no iteration of the
\* hard-split loop leaves remaining, on which alone the loop's condition and
\* its next iteration depend, as it found it.
C17_ChunkTextTerminates ==
  [][HardSplit => chunker.remaining' # chunker.remaining]_vars

\* C18: with maxChunkChars > 0 no chunk of the returned list is longer than
\* maxChunkChars.
C18_ChunksWithinMaxChunkChars ==
  (chunker.pc = "done" /\ chunker.config.maxChunkChars > 0) =>
    \A i \in 1..Len(chunker.result) :
      Len(chunker.result[i].text) <= chunker.config.maxChunkChars

\* C19: in the returned list C, C[i].index = i and C[i].total = |C|, and the
\* text of every chunk but the first begins with "{toolName}: ... ".
C19_IndexTotalAndContinuationPrefix ==
  chunker.pc = "done" =>
    LET C == chunker.result
        prefix == chunker.toolNamePrefix \o <<":", " ", ".", ".", ".", " ">>
    IN \A i \in 1..Len(C) :
         /\ C[i].index = i - 1
         /\ C[i].total = Len(C)
         /\ i > 1 => /\ Len(C[i].text) >= Len(prefix)
                     /\ SubSeq(C[i].text, 1, Len(prefix)) = prefix

\* Three chunks of a text of two lines under the tool name r.
C19_Witness ==
  /\ chunker.pc = "done"
  /\ chunker.toolNamePrefix = <<"r">>
  /\ chunker.config = [maxChunkChars |-> 8, overlapChars |-> 1]
  /\ Len(chunker.result) = 3
  /\ chunker.result[3].index = 2
  /\ \E k \in 1..Len(chunker.text) : chunker.text[k] = NL

\* C20: with overlapChars > 0, the last overlapChars characters of every
\* chunk of the returned list (the whole chunk when it is shorter) occur in
\* the next chunk.
C20_TailOfChunkIsInTheNext ==
  (chunker.pc = "done" /\ chunker.config.overlapChars > 0) =>
    LET C == chunker.result
    IN \A i \in 1..(Len(C) - 1) :
         Includes(C[i + 1].text,
                  JsSlice(C[i].text, -chunker.config.overlapChars, Len(C[i].text)))

\* The names of the entries of a raw servers map that are not disabled.
enabledNames(dict) == {dict[k].name : k \in {i \in 1..Len(dict) : ~dict[i].disabled}}

\* The names of the entries of a raw servers map that are disabled.
disabledNames(dict) == {dict[k].name : k \in {i \in 1..Len(dict) : dict[i].disabled}}

\* C21: the resolved server list holds every name the servers file or the
\* inline map yields exactly once, from the inline map when the inline map
\* yields the name and from the file otherwise; the legacy array is used if
\* and only if both yield no server, and then the list is the array's entries
\* in order.
C21_ServersAreFileOverlaidByInlineElseLegacy ==
  parse.pc = "parsed" =>
    LET fileNames == enabledNames(parse.raw.file.dict)
        inlineNames == enabledNames(parse.raw.mcpServers)
        resolved == parse.cfg.servers
    IN IF fileNames = {} /\ inlineNames = {}
         THEN /\ Len(resolved) = Len(parse.raw.servers)
              /\ \A k \in 1..Len(resolved) :
                   resolved[k] = serverConfig(parse.raw.servers[k].name, "legacy")
         ELSE /\ {resolved[k].name : k \in 1..Len(resolved)} = fileNames \cup inlineNames
              /\ \A k, l \in 1..Len(resolved) : resolved[k].name = resolved[l].name => k = l
              /\ \A k \in 1..Len(resolved) :
                   resolved[k].source = IF resolved[k].name \in inlineNames
                                          THEN "inline" ELSE "file"

\* A name in both maps, another in the file only, and a legacy array left unused.
C21_Witness ==
  /\ parse.pc = "parsed"
  /\ parse.cfg.servers = <<serverConfig(<<"b">>, "file"), serverConfig(<<"a">>, "inline")>>
  /\ enabledNames(parse.raw.file.dict) = {<<"a">>, <<"b">>}
  /\ enabledNames(parse.raw.mcpServers) = {<<"a">>}
  /\ Len(parse.raw.servers) > 0

\* C22: a server that is disabled in the inline map and enabled in the
\* servers file is absent from the resolved server list.
C22_DisabledInlineHidesFileEntry ==
  parse.pc = "parsed" =>
    \A name \in disabledNames(parse.raw.mcpServers) \cap enabledNames(parse.raw.file.dict) :
      \A k \in 1..Len(parse.cfg.servers) : parse.cfg.servers[k].name # name

\* C23: in the resolved configuration every numeric field of the indexer is
\* >= 0 and search.topK is within [1, 20].
C23_NumericFieldsAreClamped ==
  parse.pc = "parsed" =>
    /\ parse.cfg.indexer.connectTimeout >= 0
    /\ parse.cfg.indexer.maxRetries >= 0
    /\ parse.cfg.indexer.initialRetryDelay >= 0
    /\ parse.cfg.indexer.maxRetryDelay >= 0
    /\ parse.cfg.indexer.maxChunkChars >= 0
    /\ parse.cfg.indexer.overlapChars >= 0
    /\ parse.cfg.search.topK >= Whole(1)
    /\ parse.cfg.search.topK <= Whole(20)

\* C24: every connect of a server task is passed the server's own timeout
\* when one is configured and indexer.connectTimeout otherwise; a timeout of
\* the server above connectTimeout is passed unchanged.
C24_ConnectTimeoutIsServersElseIndexers ==
  \A k \in 1..Len(attemptLoop.timeouts) :
    attemptLoop.timeouts[k] = IF attemptLoop.cfg.timeout.type = "number"
                                THEN attemptLoop.cfg.timeout.num
                                ELSE attemptLoop.cfg.connectTimeout

\* Two connects of a server whose timeout is above connectTimeout.
C24_Witness ==
  /\ Len(attemptLoop.timeouts) >= 2
  /\ attemptLoop.cfg.timeout.type = "number"
  /\ attemptLoop.cfg.timeout.num > attemptLoop.cfg.connectTimeout
  /\ attemptLoop.timeouts[2] = attemptLoop.cfg.timeout.num

\* C25, as stated: every connect is passed the smaller of the server's own
\* timeout and indexer.connectTimeout.
C25_ConnectTimeoutIsTheSmaller ==
  \A k \in 1..Len(attemptLoop.timeouts) :
    attemptLoop.cfg.timeout.type = "number" =>
      attemptLoop.timeouts[k] = Min(attemptLoop.cfg.timeout.num, attemptLoop.cfg.connectTimeout)

\* C25, amended: every connect is passed the smaller of the two when the
\* server's own timeout is not above indexer.connectTimeout, and the server's
\* own, larger, timeout when it is.
C25_ConnectTimeoutIsTheSmallerUnlessOverridden ==
  \A k \in 1..Len(attemptLoop.timeouts) :
    attemptLoop.cfg.timeout.type = "number" =>
      /\ attemptLoop.cfg.timeout.num <= attemptLoop.cfg.connectTimeout =>
           attemptLoop.timeouts[k] =
             Min(attemptLoop.cfg.timeout.num, attemptLoop.cfg.connectTimeout)
      /\ attemptLoop.cfg.timeout.num > attemptLoop.cfg.connectTimeout =>
           attemptLoop.timeouts[k] =
             Max(attemptLoop.cfg.timeout.num, attemptLoop.cfg.connectTimeout)

\* A connect of a server whose timeout is below connectTimeout.
C25_Witness ==
  /\ Len(attemptLoop.timeouts) >= 1
  /\ attemptLoop.cfg.timeout.type = "number"
  /\ attemptLoop.cfg.timeout.num < attemptLoop.cfg.connectTimeout
  /\ attemptLoop.timeouts[1] = attemptLoop.cfg.timeout.num

\* C26: the task sleeps once before every attempt but the first, before
\* attempt a for min(initialRetryDelay * 2^(a-1), maxRetryDelay) milliseconds;
\* the delays of a task are non-decreasing and none exceeds maxRetryDelay.
C26_BackoffDelays ==
  LET delays == attemptLoop.delays
      cfg == attemptLoop.cfg
  IN /\ Len(delays) <= Len(attemptLoop.timeouts)
     /\ Len(attemptLoop.timeouts) <= Len(delays) + 1
     /\ \A a \in 1..Len(delays) :
          /\ delays[a] = Min(cfg.initialRetryDelay * 2 ^ (a - 1), cfg.maxRetryDelay)
          /\ delays[a] <= cfg.maxRetryDelay
          /\ a > 1 => delays[a - 1] <= delays[a]

\* C27: a failure of the CLI artifact generation (the generator exits with a
\* non-zero code, or preparing the output directory fails) is followed by the
\* tool loop of the same attempt: it neither fails nor retries the attempt.
C27_CliFailureDoesNotFailTheAttempt ==
  [][(attemptLoop.pc = "generating" /\ attemptLoop'.cli \in {"failed", "threw"})
       => (attemptLoop'.pc = "tools" /\ attemptLoop'.attempt = attemptLoop.attempt)]_vars

\* The number of clients of the task that are open.
openClients == Cardinality({k \in 1..Len(attemptLoop.clients) : attemptLoop.clients[k]})

\* C29: a server task never has more than one open client, and has none when
\* it has settled, fulfilled or rejected.
C29_ClientsAreDisconnected ==
  /\ openClients <= 1
  /\ attemptLoop.pc \in {"fulfilled", "rejected"} => openClients = 0

\* A task cancelled in its third attempt, after two failed ones.
C29_Witness ==
  /\ attemptLoop.pc = "rejected"
  /\ attemptLoop.aborted
  /\ Len(attemptLoop.clients) = 3
  /\ openClients = 0

\* The rows of a tool of a server.
rowsOfTool(rows, serverName, toolName) ==
  {r \in rows : r.server_name = serverName /\ r.tool_name = toolName}

\* The path of the tool task s is at: the calls it may be in for the number
\* of chunks of the tool, and the entries built so far.
pathOfTool(s) ==
  LET t == task[s]
      tool == t.tools[t.idx]
      chunks == toolChunks(tool)
      n == Len(chunks)
      name == servers[s].name
  IN /\ n = 1 => t.pc \in {"embed1", "upsertDelete", "upsertAdd"}
     /\ n > 1 => t.pc \in {"deleting", "embedN", "adding"}
     /\ t.pc \in {"embed1", "deleting"} => t.entries = <<>>
     /\ t.pc \in {"upsertDelete", "upsertAdd"} =>
          /\ Len(t.entries) = 1
          /\ t.entries[1].tool_id = singleToolId(name, tool.name)
          /\ t.entries[1].vector = embeddingOf(chunks[1].text)
     /\ t.pc = "embedN" =>
          /\ Len(t.entries) < n
          /\ rowsOfTool(store, name, tool.name) = {}
     /\ t.pc = "adding" =>
          /\ Len(t.entries) = n
          /\ rowsOfTool(store, name, tool.name) = {}
     /\ t.pc \in {"embedN", "adding"} =>
          \A k \in 1..Len(t.entries) :
            /\ t.entries[k].tool_id = chunkToolId(name, tool.name, k - 1)
            /\ t.entries[k].vector = embeddingOf(chunks[k].text)

\* A step of task s registers the owner of its tool: indexed++.
registersTool(s) ==
  /\ task[s].pc \in ToolLoopPcs
  /\ task'[s].indexed = task[s].indexed + 1

\* C28: a tool of one chunk is embedded once and written by upsertTool under
\* the id "{server}::{tool}", with no deleteToolChunks and no addToolEntries; a
\* tool of n > 1 chunks has its rows deleted first, its chunks embedded in
\* index order, and is written by one addToolEntries of n entries with the ids
\* "{server}::{tool}::chunk{i}", i = 0..n-1; the owner of a tool is registered
\* only in the step that completes its store write.
C28_SingleAndMultiChunkPaths ==
  /\ [](\A s \in Servers : task[s].pc \in ToolLoopPcs => pathOfTool(s))
  /\ [][\A s \in Servers :
          /\ registersTool(s) =>
               /\ task[s].pc \in {"upsertAdd", "adding"}
               /\ \A k \in 1..Len(task[s].entries) : task[s].entries[k] \in store'
               /\ toolOwnerMap'[task[s].tools[task[s].idx].name] = servers[s].name
          /\ (task[s].pc = "embedN" /\ task'[s] # task[s]
                /\ task'[s].idx = task[s].idx
                /\ task'[s].pc \in {"embedN", "adding"}) =>
               /\ Len(task'[s].entries) = Len(task[s].entries) + 1
               /\ SubSeq(task'[s].entries, 1, Len(task[s].entries)) = task[s].entries
          /\ toolOwnerMap' # toolOwnerMap =>
               \E r \in Servers : registersTool(r)]_vars

\* A second run has written a tool of one chunk and a tool of several chunks
\* and registered both.
C28_Witness ==
  /\ runs = 2
  /\ \E s \in Servers :
       /\ task[s].pc = "fulfilled"
       /\ task[s].indexed = 2
       /\ \E r \in store : r.tool_id = singleToolId(servers[s].name, <<"r">>)
       /\ \E r \in store : r.tool_id = chunkToolId(servers[s].name, <<"w">>, 1)
       /\ toolOwnerMap[<<"r">>] = servers[s].name
       /\ toolOwnerMap[<<"w">>] = servers[s].name

\* A step of task s ends its current tool without writing rows, from a call
\* of the embeddings: the call rejects, or the signal was aborted.
toolAbandoned(s) ==
  /\ task[s].pc \in {"embed1", "embedN"}
  /\ \/ task'[s].failed = task[s].failed + 1
     \/ task'[s].pc \in {"catching", "rejected"}

\* C30: when every earlier run indexed every tool of the server and the
\* re-indexing of a tool ends, by a failed embedding or by cancellation, before
\* its new rows are written, rows of that tool are still in the store.
C30_FailedReindexKeepsOldRows ==
  [][\A s \in Servers :
       (runs >= 2 /\ everyRunSucceeded /\ toolAbandoned(s)) =>
          rowsOfTool(store', servers[s].name, task[s].tools[task[s].idx].name) # {}]_vars

\* A step of task s starts a store write: upsertTool, deleteToolChunks or
\* addToolEntries is called.
startsWrite(s) ==
  /\ task'[s].pc \in {"upsertDelete", "deleting", "adding"}
  /\ \/ task'[s].pc # task[s].pc
     \/ task'[s].idx # task[s].idx

\* C31: once the signal of the run is aborted no server task starts a store
\* write (upsertTool, deleteToolChunks, addToolEntries) and none registers a
\* tool owner, whatever call was in flight when the signal was aborted.
C31_NoWriteAfterAbort ==
  [][(runStatus = "running" /\ signalAborted) =>
       /\ toolOwnerMap' = toolOwnerMap
       /\ \A s \in Servers : ~startsWrite(s) /\ ~registersTool(s)]_vars

\* The entries of the run: the rows of the store and the entries the tasks
\* have built.
entriesOfRun ==
  store \cup UNION {{task[s].entries[k] : k \in 1..Len(task[s].entries)} : s \in Servers}

sameCapability(a, b) == a.server_name = b.server_name /\ a.tool_name = b.tool_name

\* C32: two entries of distinct (server, tool) pairs have distinct tool_ids
\* and distinct deduplication keys in mcp_search (two results of them stay two
\* cards), and a row leaves the store only in a delete of the task that is
\* writing the row's own (server, tool) pair.
C32_WritesOfOnePairLeaveTheOthers ==
  /\ [](\A a, b \in entriesOfRun :
          ~sameCapability(a, b) =>
            /\ a.tool_id # b.tool_id
            /\ Len(dedupe(<<searchResult(a.server_name, a.tool_name, 170),
                            searchResult(b.server_name, b.tool_name, 170)>>, 1, <<>>)) = 2)
  /\ [][\A r \in store \ store' :
          \E s \in Servers :
            /\ task[s].pc \in {"upsertDelete", "deleting"}
            /\ servers[s].name = r.server_name
            /\ task[s].tools[task[s].idx].name = r.tool_name]_vars

\* C33: an operation called on an instance whose initialisation has failed
\* starts a new initialisation (or goes on with the table the failed one had
\* already set): the failure is not kept for the operations that follow.
C33_InitIsRetriedAfterFailure ==
  [][\A k \in StoreOps :
       (vectorStore.init = "failed" /\ storeOps[k].pc = "idle" /\ storeOps'[k].pc # "idle") =>
          \/ vectorStore'.init = "connecting"
          \/ storeOps'[k].pc = "ready"]_vars

\* C34: the servers[] of a resolved run has one entry per configured server,
\* in the order of the configuration, each under the name of its server,
\* whatever the outcome of the server's task.
C34_EntriesCarryTheServerNames ==
  runStatus = "resolved" =>
    /\ Len(result.servers) = Len(servers)
    /\ \A s \in Servers : result.servers[s].name = servers[s].name

\* C36: a cancelled run logs no warning for its cancelled server tasks: no
\* task logs one once the signal is aborted, and runIndexer logs none when it
\* collects the rejected tasks.
C36_CancellationIsSilent ==
  /\ [](runStatus = "resolved" => runWarns = 0)
  /\ [][(runStatus = "running" /\ signalAborted) =>
         \A s \in Servers : task'[s].warns = task[s].warns]_vars

\* The names of the tools a task got from listTools.
listedNames(t) == {t.tools[k].name : k \in 1..Len(t.tools)}

\* C35: after a run in which the task of a server returned with every listed
\* tool indexed, every row of the server in the store and every name the
\* registry binds to the server is of a tool listed in that run.
C35_OnlyListedToolsRemain ==
  runStatus = "resolved" =>
    \A s \in Servers :
      (task[s].pc = "fulfilled" /\ task[s].value.error = "" /\ task[s].value.failed = 0) =>
        /\ \A r \in store :
             r.server_name = servers[s].name => r.tool_name \in listedNames(task[s])
        /\ \A n \in DOMAIN toolOwnerMap :
             toolOwnerMap[n] = servers[s].name => n \in listedNames(task[s])

\* The embedding requests of the run that are in flight.
inFlightEmbeds == Cardinality({s \in Servers : task[s].pc \in {"embed1", "embedN"}})

\* C37: a server task goes through the tools of its list one at a time, from
\* the first, in the order of the list, and requests the embeddings of a
\* tool's chunks one at a time in index order; so the embedding requests in
\* flight are never more than the configured servers.
C37_ToolsAndChunksInOrder ==
  /\ [](/\ inFlightEmbeds <= Len(servers)
        /\ \A s \in Servers :
             task[s].pc \in {"embed1", "embedN"} =>
               /\ task[s].ci = Len(task[s].entries)
               /\ task[s].ci < Len(toolChunks(task[s].tools[task[s].idx])))
  /\ [][\A s \in Servers :
          /\ (task[s].pc = "listing" /\ task'[s].pc \in ToolLoopPcs) => task'[s].idx = 1
          /\ (task[s].pc \in ToolLoopPcs /\ task'[s].pc \in ToolLoopPcs
              /\ task'[s].idx # task[s].idx) =>
               /\ task'[s].idx = task[s].idx + 1
               /\ task'[s].tools = task[s].tools
          /\ (task[s].pc \in ToolLoopPcs /\ task'[s].pc = "fulfilled") =>
               task[s].idx = Len(task[s].tools)
          /\ (task[s].pc = "embedN" /\ task'[s].pc = "embedN" /\ task'[s] # task[s]) =>
               /\ task'[s].idx = task[s].idx
               /\ task'[s].ci = task[s].ci + 1]_vars

\* Both servers have an embedding in flight, one of them of the second chunk
\* of its second tool.
C37_Witness ==
  /\ inFlightEmbeds = 2
  /\ \E s \in Servers : task[s].pc = "embedN" /\ task[s].idx = 2 /\ task[s].ci = 1

\* C38: a resolved server descriptor can be used with its transport: a stdio
\* server has a command, an sse or http server has a url, so that connect
\* never fails for a missing command or url; an entry that cannot be used is
\* rejected by the resolver.
C38_DescriptorFitsItsTransport ==
  /\ parse.pc = "resolved" =>
       /\ parse.cfg.transport \in TransportKinds
       /\ parse.cfg.transport = "stdio" => ~falsy(parse.cfg.command)
       /\ parse.cfg.transport # "stdio" => ~falsy(parse.cfg.url)
  /\ parse.connect # "missing"

\* The chunks C[i..] can be taken apart into the continuation prefix, a copy
\* of at most overlapChars characters of the end of the chunk before, and a
\* rest, such that acc followed by the rests is the text.
RECURSIVE reassembles(_, _, _, _, _, _)
reassembles(C, i, acc, prefix, overlapChars, text) ==
  IF i > Len(C) THEN acc = text
  ELSE LET body == C[i].text
           prev == C[i - 1].text
       IN /\ Len(body) >= Len(prefix)
          /\ SubSeq(body, 1, Len(prefix)) = prefix
          /\ \E k \in 0..Min(overlapChars, Min(Len(body) - Len(prefix), Len(prev))) :
               /\ SubSeq(body, Len(prefix) + 1, Len(prefix) + k)
                    = SubSeq(prev, Len(prev) - k + 1, Len(prev))
               /\ reassembles(C, i + 1,
                              acc \o SubSeq(body, Len(prefix) + k + 1, Len(body)),
                              prefix, overlapChars, text)

\* C39: when chunkText returns more than one chunk, the first chunk followed
\* by what every later chunk holds after its continuation prefix and its
\* leading copy of the end of the chunk before is the text.
C39_ChunksReassembleToTheText ==
  (chunker.pc = "done" /\ Len(chunker.result) > 1) =>
    reassembles(chunker.result, 2, chunker.result[1].text,
                continuationPrefix(chunker.toolNamePrefix),
                chunker.config.overlapChars, chunker.text)
====
